---- MODULE Spec2Model ----
(***************************************************************************)
(* Flexographic production scheduling: the scheduling service and its four *)
(* use-cases over the queue table, the priority manager, the multi-machine *)
(* re-assignment planner and the working-calendar date calculator.         *)
(*                                                                         *)
(* Time: Python floats of minutes and datetimes are modelled in fixed      *)
(* point.  One tick is 1/100 minute, the resolution the date calculator    *)
(* persists with round(x, 2); a timestamp is the number of ticks since a   *)
(* Monday 00:00.  Fractions of the configuration (0.95, 0.01, 0.7 ...) are *)
(* kept as integer percentages.                                            *)
(***************************************************************************)
EXTENDS Integers, Sequences, FiniteSets, TLC

VARIABLES
    pedidos,      \* table pedido: order id -> attributes (status is mutable)
    queue,        \* table orden_impresion_i_a_s: a set of queue rows
    clock,        \* wall clock read by datetime.now()
    steps,        \* number of events so far: requests served and orders leaving
    lastOp,       \* the last use-case executed and what it did (history)
    gestor,       \* one GestorPrioridades instance (secuencia, bloqueos, ...)
    plan,         \* one run of OptimizadorTotal._reasignar_ordenes_inteligente
    calc,         \* one evaluation of the date calculator and the print-time estimate
    run,          \* one generate_optimal_schedule_all_machines request, line by line
    ag,           \* one generate_optimal_schedule request with its genetic run inside
    peticiones    \* two concurrent prioritize_pedido requests, read by read

vars == <<pedidos, queue, clock, steps, lastOp, gestor, plan, calc, run, ag, peticiones>>

----------------------------------------------------------------------------
(* Bounds of the model *)

NumOrders == 4
MaxClock == 1
MaxSteps == 3
MaxGestorOps == 3
GestorOrders == 4
PlanMaxLoad == 22
CalcStartsPerDay == 3
CalcMaxShifts == 3
GAPoblacion == 2
GAGeneraciones == 2

(* Program constants *)

TicksPerMin == 100
MinutesPerDay == 1440
DefaultTimeChange == 15
DefaultVelocity == 150
LoadLimit == 50
BalanceThreshold == 20
BalanceFloor == 15
BalanceGap == 5
BalancePct == 30
StatusLimit == 5
MaterialChangeFactor == 200
MaterialSameFactor == 50
InkCleanCost == 5
InkAddCost == 25
SameClientBonusFactor == 80
ColorReuseBonus == 15

NULL == -1

----------------------------------------------------------------------------
(* Generic helpers *)

Range(s) == {s[i] : i \in DOMAIN s}

\* variant: the second argument whatever the first
Max_segundo(a, b) == b

Max(a, b) == IF a >= b THEN a ELSE b

Min(a, b) == IF a <= b THEN a ELSE b

Abs(a) == IF a >= 0 THEN a ELSE 0 - a

\* float division, rounded to the nearest tick
RoundDiv(a, b) == (2 * a + b) \div (2 * b)

\* evaluates v once and hands the value to F
Bind(v, F(_)) == CHOOSE r \in {F(x) : x \in {v}} : TRUE

\* list.remove(x): drops the first occurrence of x
Remove(s, x) ==
    IF x \notin Range(s) THEN s
    ELSE LET k == CHOOSE i \in DOMAIN s : s[i] = x /\ \A j \in 1..(i-1) : s[j] # x
         IN  [i \in 1..(Len(s) - 1) |-> IF i < k THEN s[i] ELSE s[i + 1]]

\* every ordering of a finite set, as sequences without repetition
RECURSIVE Perms(_)
Perms(S) ==
    IF S = {} THEN {<<>>}
    ELSE UNION {{<<x>> \o p : p \in Perms(S \ {x})} : x \in S}

\* stable ascending sort of the positions of a list by an integer key
SortedIdx(keys) ==
    Bind(keys \o <<>>, LAMBDA ks :
        LET n == Len(ks)
            rank(i) == 1 + Cardinality({j \in 1..n :
                           ks[j] < ks[i] \/ (ks[j] = ks[i] /\ j < i)})
        IN  [p \in 1..n |-> CHOOSE i \in 1..n : rank(i) = p] \o <<>>)

----------------------------------------------------------------------------
(* Machines (table maquina).  The table is not written by the use-cases.   *)

Maquinas ==
    [m \in {1, 2, 4} |->
        [id |-> m,
         estatus |-> IF m = 4 THEN "mantenimiento" ELSE "activa",
         inks |-> IF m = 2 THEN 8 ELSE 6,
         functional_inks |-> IF m = 2 THEN 8 ELSE 4,
         share_rolls |-> IF m = 1 THEN {2} ELSE IF m = 4 THEN {1} ELSE {},
         time_change_units |-> 15,
         avg_velocity |-> 150]]

MachineIds == DOMAIN Maquinas

\* variant: the estatus of the machine is not looked at
MaquinaActiva_existente(mid) == mid \in MachineIds

\* the machine exists and its estatus is 'activa'
MaquinaActiva(mid) ==
    IF mid \in MachineIds THEN Maquinas[mid].estatus = "activa" ELSE FALSE

\* an identifier that resolves to no machine
UnknownMachine == 99

\* the machine ids hard-coded in get_schedulable_orders_for_all_machines
MaquinasPlanificables == {1, 2, 4, 9, 13, 14, 15, 16, 17}

----------------------------------------------------------------------------
(* Working calendar and date calculator (core/calculators.py) *)

\* the PlannerConfig every use-case of the service builds
ServiceConfig ==
    [turnos_dia_semana |-> 2,
     horas_por_turno_semana |-> 12,
     turnos_sabado |-> 2,
     horas_por_turno_sabado |-> 12,
     dias_laborales |-> 0..6,
     hora_inicio_turno1 |-> 8,
     eficiencia_maquina |-> 95,
     buffer_seguridad_pct |-> 1,
     costo_cambio_tinta_min |-> 5,
     factor_cambio_material_completo |-> 100,
     factor_cambio_material_parcial |-> 50,
     bonificacion_mismo_cliente_pct |-> 70]

TicksPerDay == MinutesPerDay * TicksPerMin

\* DateCalculator.__init__: working minutes of each weekday (0 = Monday)
minutos_laborables_por_dia(cfg) ==
    [dia \in 0..6 |->
        IF dia \in cfg.dias_laborales
        THEN IF dia = 5
             THEN cfg.horas_por_turno_sabado * 60 * cfg.turnos_sabado
             ELSE cfg.horas_por_turno_semana * 60 * cfg.turnos_dia_semana
        ELSE 0]

Weekday(t) == (t \div TicksPerDay) % 7

\* datetime.replace(hour=h, minute=0): seconds and below are kept
ReplaceHour(t, h) ==
    (t \div TicksPerDay) * TicksPerDay + h * 60 * TicksPerMin + (t % TicksPerMin)

Raises == -2
Diverges == -3
MaxCalendarDays == 15

RECURSIVE AjustarLoop(_, _, _, _)
AjustarLoop(cfg, fecha_actual, minutos_restantes, fuel) ==
    IF minutos_restantes <= 0 THEN fecha_actual
    ELSE IF fuel = 0 THEN Diverges
    ELSE
      LET hoy == minutos_laborables_por_dia(cfg)[Weekday(fecha_actual)]
          manana == ReplaceHour(fecha_actual + TicksPerDay, cfg.hora_inicio_turno1)
      IN  IF hoy = 0
          THEN Bind(manana, LAMBDA f : AjustarLoop(cfg, f, minutos_restantes, fuel - 1))
          ELSE
            LET hora_fin == cfg.hora_inicio_turno1 + (hoy \div 60)
                min_fin == hoy % 60
            IN  IF hora_fin > 23 THEN Raises
                ELSE
                  LET fin_jornada_hoy ==
                          ReplaceHour(fecha_actual, hora_fin) + min_fin * TicksPerMin
                      disponibles == Max(0, fin_jornada_hoy - fecha_actual)
                  IN  IF minutos_restantes <= disponibles
                      THEN fecha_actual + minutos_restantes
                      ELSE Bind([f |-> manana, r |-> minutos_restantes - disponibles],
                                LAMBDA x : AjustarLoop(cfg, x.f, x.r, fuel - 1))

\* variant: the duration is taken off the start instead of added to it
ajustar_horario_laboral_resta(cfg, fecha_inicio, minutos_a_sumar) ==
    fecha_inicio - minutos_a_sumar

\* variant: the start comes back as it was given
ajustar_horario_laboral_sin_avance(cfg, fecha_inicio, minutos_a_sumar) == fecha_inicio

\* DateCalculator._ajustar_horario_laboral; durations and results in ticks
ajustar_horario_laboral(cfg, fecha_inicio, minutos_a_sumar) ==
    IF \A d \in 0..6 : minutos_laborables_por_dia(cfg)[d] = MinutesPerDay
    THEN fecha_inicio + minutos_a_sumar
    ELSE AjustarLoop(cfg, fecha_inicio, minutos_a_sumar, MaxCalendarDays)

\* "x or default" of Python: a zero falls back to the default
OrDefault(x, d) == IF x = 0 THEN d ELSE x

\* DateCalculator._calcular_tiempo_cambio, in ticks
calcular_tiempo_cambio(cfg, orden_anterior, orden_actual, machine) ==
    LET tiempo_base == OrDefault(machine.time_change_units, DefaultTimeChange) * TicksPerMin
        material == IF orden_anterior.materiales # orden_actual.materiales
                    THEN RoundDiv(tiempo_base * cfg.factor_cambio_material_completo, 100)
                    ELSE RoundDiv(tiempo_base * cfg.factor_cambio_material_parcial, 100)
        tintas == Abs(orden_anterior.num_colores - orden_actual.num_colores)
                      * cfg.costo_cambio_tinta_min * TicksPerMin
        costo == material + tintas
    IN  IF orden_anterior.id_cliente = orden_actual.id_cliente
        THEN RoundDiv(costo * cfg.bonificacion_mismo_cliente_pct, 100)
        ELSE costo

\* the five duration fields of one order of the sequence (steps 1.1 - 1.5)
TiemposOrden(cfg, ordenes, i, machine) ==
    LET orden == ordenes[i]
        tiempo_setup == IF i > 1
                        THEN calcular_tiempo_cambio(cfg, ordenes[i-1], orden, machine)
                        ELSE 0
        num_etiquetas == OrDefault(orden.num_etiquetas, 1)
        tiempo_cambios_internos ==
            (num_etiquetas - 1)
                * OrDefault(machine.time_change_units, DefaultTimeChange) * TicksPerMin
        velocidad_m_hora == OrDefault(machine.avg_velocity, DefaultVelocity)
        \* metros / (velocidad / 60), in ticks
        tiempo_impresion_teorico ==
            IF velocidad_m_hora > 0
            THEN RoundDiv(orden.total_metros_impresion * 60 * TicksPerMin, velocidad_m_hora)
            ELSE 0
        tiempo_impresion_real ==
            RoundDiv(tiempo_impresion_teorico * 100, cfg.eficiencia_maquina)
        \* line 160: only the print time is accumulated into duracion_orden_minutos
        duracion_orden_minutos == tiempo_impresion_real
        tiempo_buffer == RoundDiv(duracion_orden_minutos * cfg.buffer_seguridad_pct, 100)
        \* line 167 overwrites the subtotal of line 163
        duracion_total_orden == duracion_orden_minutos + tiempo_buffer
    IN  [tiempo_setup_min |-> tiempo_setup,
         tiempo_cambios_internos_min |-> tiempo_cambios_internos,
         tiempo_impresion_min |-> tiempo_impresion_real,
         tiempo_buffer_min |-> tiempo_buffer,
         tiempo_total_min |-> duracion_total_orden]

\* the loop of calcular_fechas_probables from order i on: fecha_acumulada is
\* the end of the previous order, ordenes_con_fechas the records appended so far
RECURSIVE FechasLoop(_, _, _, _, _, _)
FechasLoop(cfg, ordenes, machine, i, fecha_acumulada, ordenes_con_fechas) ==
    IF i > Len(ordenes) THEN ordenes_con_fechas
    ELSE
      Bind(TiemposOrden(cfg, ordenes, i, machine), LAMBDA t :
      Bind(IF fecha_acumulada < 0 THEN fecha_acumulada
           ELSE ajustar_horario_laboral(cfg, fecha_acumulada, t.tiempo_total_min),
           LAMBDA fecha_fin_orden :
             FechasLoop(cfg, ordenes, machine, i + 1, fecha_fin_orden,
                        Append(ordenes_con_fechas,
                               [id |-> ordenes[i].id,
                                id_en_cola |-> ordenes[i].id_en_cola,
                                probable_fecha_entrega |-> fecha_fin_orden,
                                tiempo_setup_min |-> t.tiempo_setup_min,
                                tiempo_cambios_internos_min |-> t.tiempo_cambios_internos_min,
                                tiempo_impresion_min |-> t.tiempo_impresion_min,
                                tiempo_buffer_min |-> t.tiempo_buffer_min,
                                tiempo_total_min |-> t.tiempo_total_min]))))

\* DateCalculator.calcular_fechas_probables: one record per order, in order
calcular_fechas_probables(cfg, ordenes, fecha_inicio, machine) ==
    Bind(ordenes \o <<>>, LAMBDA os : FechasLoop(cfg, os, machine, 1, fecha_inicio, <<>>))

----------------------------------------------------------------------------
(* Orders (table pedido) *)

\* the orders present in the store at start; only status changes afterwards
PedidoInicial(o) ==
    [id |-> o,
     status |-> 1,
     maquina |-> IF o <= 4 THEN 1 ELSE 2,
     fecha_forzosa_entrega |-> IF o = 1 THEN 20 ELSE IF o = 2 THEN 10 ELSE NULL,
     dias_restantes |-> IF o = 1 THEN 5 ELSE IF o = 2 THEN 10 ELSE 30 - o,
     prioridad_planeacion |-> 0,
     num_colores |-> IF o = 3 THEN 6 ELSE 2,
     colores |-> IF o = 3 THEN 1..6 ELSE 1..2,
     materiales |-> IF o % 2 = 0 THEN {"bopp"} ELSE {"pe"},
     id_cliente |-> IF o <= 2 THEN 7 ELSE o,
     total_metros_impresion |-> 95 * o,
     num_etiquetas |-> IF o = 2 THEN 2 ELSE 1,
     id_en_cola |-> NULL]

\* a set of integers as the ascending list
SetToSeq(S) ==
    [p \in 1..Cardinality(S) |->
        CHOOSE x \in S : Cardinality({y \in S : y < x}) = p - 1] \o <<>>

\* ORDER BY dias_restantes ASC, prioridad_planeacion ASC of the two queries
\* (the CASE term puts dias_restantes < 3 first, which ascending order does)
OrdenSql(ids) ==
    Bind(SetToSeq(ids), LAMBDA base :
    Bind(SortedIdx([i \in DOMAIN base |->
                       pedidos[base[i]].dias_restantes * 100
                           + pedidos[base[i]].prioridad_planeacion]), LAMBDA idx :
        [p \in DOMAIN base |-> pedidos[base[idx[p]]]] \o <<>>))

\* MySQLDB.get_schedulable_orders_for_machine
get_schedulable_orders_for_machine(maquina_id) ==
    OrdenSql({o \in DOMAIN pedidos :
                pedidos[o].status <= StatusLimit /\ pedidos[o].maquina = maquina_id})

\* MySQLDB.get_schedulable_orders_for_all_machines: ORDER BY maquina_id, dias_restantes
get_schedulable_orders_for_all_machines ==
    Bind(SetToSeq({o \in DOMAIN pedidos : pedidos[o].status <= StatusLimit
                                             /\ pedidos[o].maquina \in MaquinasPlanificables}),
         LAMBDA base :
    Bind(SortedIdx([i \in DOMAIN base |->
                       pedidos[base[i]].maquina * 10000 + pedidos[base[i]].dias_restantes]),
         LAMBDA idx :
        [p \in DOMAIN base |-> pedidos[base[idx[p]]]] \o <<>>))

----------------------------------------------------------------------------
(* Queue table (orden_impresion_i_a_s) and the store operations on it *)

RowsOf(q, maquina_id) == {r \in q : r.machine_id = maquina_id}

\* rows as a list ORDER BY orden (ties, if any, by primary key)
RowsOrdered(rows) ==
    LET rowOf(i) == CHOOSE r \in rows : r.id = i
    IN  Bind(SetToSeq({r.id : r \in rows}), LAMBDA base :
        Bind(SortedIdx([i \in DOMAIN base |-> rowOf(base[i]).order_production]), LAMBDA idx :
            [p \in DOMAIN base |-> rowOf(base[idx[p]])] \o <<>>))

\* MySQLDB.get_production_queue_for_machine
get_production_queue_for_machine(q, maquina_id) == RowsOrdered(RowsOf(q, maquina_id))

\* MySQLDB.get_schedulable_orders_by_ids: the queue rows of the machine joined
\* with pedido, in queue order, each carrying its queue row id
get_schedulable_orders_by_ids(q, maquina_id) ==
    Bind(RowsOrdered({r \in RowsOf(q, maquina_id) : r.order_id \in DOMAIN pedidos}),
         LAMBDA rows :
            [i \in DOMAIN rows |->
                [pedidos[rows[i].order_id] EXCEPT !.id_en_cola = rows[i].id]] \o <<>>)

\* AUTO_INCREMENT primary keys: k identifiers not used by any row of q
FreshIds(q, k) ==
    LET used == {r.id : r \in q}
        free == {i \in 1..(Cardinality(q) + k) : i \notin used}
    IN  SetToSeq({i \in free : Cardinality({j \in free : j <= i}) <= k})

\* MySQLDB.overwrite_machine_schedule: delete the machine's rows, insert the new ones
overwrite_machine_schedule(q, maquina_id, new_schedule) ==
    LET kept == {r \in q : r.machine_id # maquina_id}
        ids == FreshIds(kept, Len(new_schedule))
    IN  kept \cup {[new_schedule[i] EXCEPT !.id = ids[i]] : i \in DOMAIN new_schedule}

\* MySQLDB.update_production_queue: bulk UPDATE by primary key
update_production_queue(q, updates) ==
    {IF \E u \in Range(updates) : u.id = r.id
     THEN [r EXCEPT !.order_production =
                (CHOOSE u \in Range(updates) : u.id = r.id).order_production]
     ELSE r : r \in q}

\* variant: the updated rows are deleted and inserted again under new keys
update_queue_dates_and_times_reinserta(q, updates) ==
    {IF \E u \in Range(updates) : u.id = r.id
     THEN [r EXCEPT !.id = r.id + Cardinality(q)]
     ELSE r : r \in q}

\* MySQLDB.update_queue_dates_and_times: bulk UPDATE by primary key
update_queue_dates_and_times(q, updates) ==
    {IF \E u \in Range(updates) : u.id = r.id
     THEN LET u == CHOOSE v \in Range(updates) : v.id = r.id
          IN  [r EXCEPT !.probable_delivery_date = u.probable_delivery_date,
                        !.tiempo_setup_min = u.tiempo_setup_min,
                        !.tiempo_cambios_internos_min = u.tiempo_cambios_internos_min,
                        !.tiempo_impresion_min = u.tiempo_impresion_min,
                        !.tiempo_buffer_min = u.tiempo_buffer_min,
                        !.tiempo_total_min = u.tiempo_total_min]
     ELSE r : r \in q}

----------------------------------------------------------------------------
(* Genetic sequencer (AlgoritmoGeneticoFlexo.optimizar) *)

\* the sequences optimizar can return for a list of orders: the best
\* individual is a permutation of the indices, translated back to order ids
GAResults(ids) == Perms(Range(ids))

\* with a single order cxOrdered / mutShuffleIndexes sample two positions of a
\* one-element individual and raise; a run that draws no crossover and no
\* mutation returns the order
GAMayRaise(ids) == Len(ids) = 1

\* AlgoritmoGeneticoFlexo._estimar_tiempo_produccion, in ticks
estimar_tiempo_produccion(maquina, orden) ==
    IF orden.total_metros_impresion = 0 \/ maquina.avg_velocity = 0
    THEN 0
    ELSE RoundDiv(orden.total_metros_impresion * 60 * TicksPerMin, maquina.avg_velocity)

\* Python truth value of an identifier: None and 0 are false
Truthy(x) == x # NULL /\ x # 0

\* AlgoritmoGeneticoFlexo._calcular_costo_cambio, in ticks; the orders carry
\* the sets EnrichedOrder parsed (colores, materiales) and id_cliente
calcular_costo_cambio(orden_anterior, orden_actual, maquina) ==
    LET tiempo_base == OrDefault(maquina.time_change_units, DefaultTimeChange) * TicksPerMin
        material == IF orden_anterior.materiales # orden_actual.materiales
                    THEN RoundDiv(tiempo_base * MaterialChangeFactor, 100)
                    ELSE RoundDiv(tiempo_base * MaterialSameFactor, 100)
        tintas_a_quitar == orden_anterior.colores \ orden_actual.colores
        tintas_a_anadir == orden_actual.colores \ orden_anterior.colores
        tintas_reutilizadas == orden_anterior.colores \cap orden_actual.colores
        costo == material
                 + Cardinality(tintas_a_anadir) * InkAddCost * TicksPerMin
                 + Cardinality(tintas_a_quitar) * InkCleanCost * TicksPerMin
                 - Cardinality(tintas_reutilizadas) * ColorReuseBonus * TicksPerMin
        con_cliente ==
            IF Truthy(orden_anterior.id_cliente)
               /\ orden_anterior.id_cliente = orden_actual.id_cliente
            THEN (2 * costo * SameClientBonusFactor + 100) \div 200
            ELSE costo
    IN  Max(0, con_cliente)

\* deap.tools.cxOrdered, the loop that refills both individuals from position
\* b + 1 on with the values that are not in the other's segment a..b; x holds
\* ind1, ind2 (written in place, and read through temp1 and temp2, which are
\* the same lists) and the write positions k1, k2
RECURSIVE CxOrderedLlenar(_, _, _, _, _, _)
CxOrderedLlenar(x, holes1, holes2, b, size, i) ==
    IF i >= size THEN x
    ELSE
      LET pos == ((i + b + 1) % size) + 1
          x1 == IF ~holes1[x.ind1[pos]]
                THEN [x EXCEPT !.ind1[(x.k1 % size) + 1] = x.ind1[pos], !.k1 = x.k1 + 1]
                ELSE x
          x2 == IF ~holes2[x1.ind2[pos]]
                THEN [x1 EXCEPT !.ind2[(x1.k2 % size) + 1] = x1.ind2[pos], !.k2 = x1.k2 + 1]
                ELSE x1
      IN  Bind(x2, LAMBDA y : CxOrderedLlenar(y, holes1, holes2, b, size, i + 1))

\* variant: a two-point crossover, the segments a..b are exchanged and
\* nothing else is repaired
CxOrdered_dos_puntos(ind1, ind2, a, b) ==
    <<[p \in DOMAIN ind1 |-> IF p - 1 >= a /\ p - 1 <= b THEN ind2[p] ELSE ind1[p]] \o <<>>,
      [p \in DOMAIN ind2 |-> IF p - 1 >= a /\ p - 1 <= b THEN ind1[p] ELSE ind2[p]] \o <<>>>>

\* toolbox.mate = deap.tools.cxOrdered(ind1, ind2) with the cut points a < b
\* that random.sample(range(size), 2) drew; positions and values count from 0
CxOrdered(ind1, ind2, a, b) ==
    LET size == Min(Len(ind1), Len(ind2))
        fuera(i) == i < a \/ i > b
        holes1 == [v \in 0..(size - 1) |->
                      ~ \E i \in 0..(size - 1) : fuera(i) /\ ind2[i + 1] = v]
        holes2 == [v \in 0..(size - 1) |->
                      ~ \E i \in 0..(size - 1) : fuera(i) /\ ind1[i + 1] = v]
    IN  Bind(CxOrderedLlenar([ind1 |-> ind1, ind2 |-> ind2, k1 |-> b + 1, k2 |-> b + 1],
                             holes1, holes2, b, size, 0),
             LAMBDA x :
                <<[p \in 1..size |->
                      IF p - 1 >= a /\ p - 1 <= b THEN x.ind2[p] ELSE x.ind1[p]] \o <<>>,
                  [p \in 1..size |->
                      IF p - 1 >= a /\ p - 1 <= b THEN x.ind1[p] ELSE x.ind2[p]] \o <<>>>>)

\* the cut points cxOrdered can draw
Cortes(size) == {c \in (0..(size - 1)) \X (0..(size - 1)) : c[1] < c[2]}

\* toolbox.mutate = deap.tools.mutShuffleIndexes from position i on: cambios[i]
\* is the position drawn for i, or NULL when random() >= indpb
RECURSIVE MutShuffleIndexes(_, _, _)
MutShuffleIndexes(individual, cambios, i) ==
    IF i >= Len(individual) THEN individual
    ELSE IF cambios[i + 1] = NULL THEN MutShuffleIndexes(individual, cambios, i + 1)
    ELSE Bind([individual EXCEPT ![i + 1] = individual[cambios[i + 1] + 1],
                                 ![cambios[i + 1] + 1] = individual[i + 1]],
              LAMBDA ind : MutShuffleIndexes(ind, cambios, i + 1))

\* the draws of one mutShuffleIndexes call: randint(0, size - 2), moved up by
\* one from i on, is any position other than i
Cambios(size) ==
    {c \in [1..size -> {NULL} \cup (0..(size - 1))] : \A i \in 1..size : c[i] # i - 1}

----------------------------------------------------------------------------
(* Priority manager (GestorPrioridades) *)

\* GestorPrioridades.__init__ with _validar_consistencia_inicial: orders of the
\* sequence that are not in ordenes_dict are filtered out; no lock is held
GestorNuevo(secuencia_inicial, ordenes_dict) ==
    LET valida(o) == o \in ordenes_dict
    IN  [secuencia |-> SelectSeq(secuencia_inicial, valida),
         bloqueos |-> [o \in {} |-> "FORZADA"],
         ordenes_dict |-> ordenes_dict]

Bloquear(bloqueos, orden_id, tipo) ==
    [o \in DOMAIN bloqueos \cup {orden_id} |-> IF o = orden_id THEN tipo ELSE bloqueos[o]]

\* variant: the target changes places with the head of the sequence
priorizar_sin_reprogramar_intercambio(g, orden_id) ==
    IF orden_id \notin Range(g.secuencia) THEN g
    ELSE [g EXCEPT !.secuencia =
                      [i \in DOMAIN g.secuencia |->
                          IF i = 1 THEN orden_id
                          ELSE IF g.secuencia[i] = orden_id THEN g.secuencia[1]
                          ELSE g.secuencia[i]],
                   !.bloqueos = [o \in DOMAIN g.bloqueos \cup {orden_id} |->
                                    IF o = orden_id THEN "FORZADA" ELSE g.bloqueos[o]]]

\* GestorPrioridades.priorizar_sin_reprogramar
priorizar_sin_reprogramar(g, orden_id) ==
    IF orden_id \notin Range(g.secuencia) THEN g
    ELSE IF orden_id \notin g.ordenes_dict
    THEN [g EXCEPT !.secuencia = Remove(g.secuencia, orden_id)]
    ELSE [g EXCEPT !.secuencia = <<orden_id>> \o Remove(g.secuencia, orden_id),
                   !.bloqueos = Bloquear(g.bloqueos, orden_id, "FORZADA")]

RECURSIVE RemoveAll(_, _)
RemoveAll(s, xs) ==
    IF xs = <<>> THEN s
    ELSE Bind(Remove(s, Head(xs)), LAMBDA s1 : RemoveAll(s1, Tail(xs)))

\* the free (not locked) orders of the sequence once the target is removed
OrdenesLibres(g, orden_id) ==
    LET libre(o) == o \notin DOMAIN g.bloqueos
    IN  SelectSeq(Remove(g.secuencia, orden_id), libre)

\* the free orders still in ordenes_dict: the input of the genetic sequencer
OrdenesLibresValidas(g, orden_id) ==
    LET valida(o) == o \in g.ordenes_dict
    IN  SelectSeq(OrdenesLibres(g, orden_id), valida)

\* self.secuencia when the sequencer is called: target and dropped orders removed
SecuenciaAntesDeOptimizar(g, orden_id) ==
    LET removida(o) == o \notin g.ordenes_dict
    IN  RemoveAll(Remove(g.secuencia, orden_id),
                  SelectSeq(OrdenesLibres(g, orden_id), removida))

\* variant: the target ahead of the locked orders
ReconstruirSecuencia_objetivo_primero(g, orden_id, secuencia_nueva_optimizada) ==
    LET bloqueada(o) == o \in DOMAIN g.bloqueos /\ o # orden_id
    IN  [g EXCEPT !.secuencia = <<orden_id>>
                                    \o SelectSeq(Remove(g.secuencia, orden_id), bloqueada)
                                    \o secuencia_nueva_optimizada,
                  !.bloqueos = [o \in DOMAIN g.bloqueos \cup {orden_id} |->
                                   IF o = orden_id THEN "ALTA" ELSE g.bloqueos[o]]]

\* lines 389-398: bloqueadas + [orden_id] + optimizadas, target locked as ALTA
ReconstruirSecuencia(g, orden_id, secuencia_nueva_optimizada) ==
    LET bloqueada(o) == o \in DOMAIN g.bloqueos /\ o # orden_id
        ordenes_bloqueadas == SelectSeq(SecuenciaAntesDeOptimizar(g, orden_id), bloqueada)
    IN  [g EXCEPT !.secuencia = ordenes_bloqueadas \o <<orden_id>> \o secuencia_nueva_optimizada,
                  !.bloqueos = Bloquear(g.bloqueos, orden_id, "ALTA")]

\* GestorPrioridades.priorizar_con_reoptimizacion: every outcome of one call,
\* with the order lists handed to the sequencer (ga) and whether it raised
priorizar_con_reoptimizacion(g, orden_id) ==
    IF orden_id \notin Range(g.secuencia)
    THEN {[g |-> g, raised |-> FALSE, ga |-> {}]}
    ELSE IF orden_id \notin g.ordenes_dict
    THEN {[g |-> [g EXCEPT !.secuencia = Remove(g.secuencia, orden_id)],
           raised |-> FALSE, ga |-> {}]}
    ELSE
      LET validas == OrdenesLibresValidas(g, orden_id)
      IN  IF validas = <<>>
          THEN {[g |-> ReconstruirSecuencia(g, orden_id, <<>>), raised |-> FALSE, ga |-> {}]}
          ELSE {[g |-> ReconstruirSecuencia(g, orden_id, opt),
                 raised |-> FALSE, ga |-> {Range(validas)}] : opt \in GAResults(validas)}
               \cup
               (IF GAMayRaise(validas)
                THEN {[g |-> [g EXCEPT !.secuencia = SecuenciaAntesDeOptimizar(g, orden_id)],
                       raised |-> TRUE, ga |-> {Range(validas)}]}
                ELSE {})

----------------------------------------------------------------------------
(* Multi-machine planner (OptimizadorTotal) *)

\* OptimizadorTotal._build_machine_compatibility_graph over the dict
\* id -> machine of the active machines: declared edges, the edge back for
\* every declared neighbour that is a key of the graph, self-loops discarded
build_machine_compatibility_graph(machines) ==
    [m \in DOMAIN machines |->
        (machines[m].share_rolls \cup {a \in DOMAIN machines : m \in machines[a].share_rolls})
            \ {m}]

\* "functional_inks or inks"
FunctionalInks(machine) == OrDefault(machine.functional_inks, machine.inks)

\* len(json.loads(orden.colores)); a null or unparseable value counts 0 and
\* is represented by the empty set
NumColoresJson(orden) == Cardinality(orden.colores)

\* machine_loads: a dict, keys in insertion order
LoadGet(loads, m) == IF m \in Range(loads.keys) THEN loads.val[m] ELSE 0

LoadSet(loads, m, v) ==
    [keys |-> IF m \in Range(loads.keys) THEN loads.keys ELSE Append(loads.keys, m),
     val |-> [x \in Range(loads.keys) \cup {m} |-> IF x = m THEN v ELSE loads.val[x]]]

GraphGet(graph, m) == IF m \in DOMAIN graph THEN graph[m] ELSE {}

\* lines 501-514: the compatible machine with the most functional inks among
\* those that can host the order and hold fewer than 50 orders (0 = None);
\* the set of neighbours is visited in ascending id order
RECURSIVE Fase1Buscar(_, _, _, _, _, _)
Fase1Buscar(comps, mejor, num_colores, loads, machines, k) ==
    IF k > Len(comps) THEN mejor
    ELSE
      LET comp_id == comps[k]
      IN  IF comp_id \notin DOMAIN machines
          THEN Fase1Buscar(comps, mejor, num_colores, loads, machines, k + 1)
          ELSE
            LET comp_inks == FunctionalInks(machines[comp_id])
            IN  IF num_colores <= comp_inks /\ comp_inks > mejor.capacidad
                   /\ LoadGet(loads, comp_id) < LoadLimit
                THEN Fase1Buscar(comps, [maquina |-> comp_id, capacidad |-> comp_inks],
                                 num_colores, loads, machines, k + 1)
                ELSE Fase1Buscar(comps, mejor, num_colores, loads, machines, k + 1)

\* lines 485-526: one order of the machine being visited in phase 1; vistas
\* keeps, for every order examined, the loads its decision was taken on
Fase1Orden(st, current_machine_id, orden, machines, graph) ==
    IF orden.id \in st.ya THEN st
    ELSE
      LET num_colores == NumColoresJson(orden)
          functional_inks_current == FunctionalInks(machines[current_machine_id])
          mejor == Fase1Buscar(SetToSeq(GraphGet(graph, current_machine_id)),
                               [maquina |-> 0, capacidad |-> functional_inks_current],
                               num_colores, st.loads, machines, 1)
          vistas == Append(st.vistas, [orden_id |-> orden.id,
                                       maquina |-> current_machine_id,
                                       loads |-> st.loads])
          l1 == LoadSet(st.loads, current_machine_id,
                        LoadGet(st.loads, current_machine_id) - 1)
      IN  IF num_colores > functional_inks_current /\ mejor.maquina # 0
          THEN [loads |-> LoadSet(l1, mejor.maquina, LoadGet(l1, mejor.maquina) + 1),
                reasignaciones |-> Append(st.reasignaciones,
                                          [orden_id |-> orden.id, destino |-> mejor.maquina,
                                           razon |-> "Requiere"]),
                ya |-> st.ya \cup {orden.id},
                vistas |-> vistas,
                balanceos |-> st.balanceos]
          ELSE [st EXCEPT !.vistas = vistas]

\* the orders desde..hasta of the machine, in list order (the range is halved
\* so that the evaluation stays shallow on long lists)
RECURSIVE Fase1Ordenes(_, _, _, _, _, _, _)
Fase1Ordenes(st, current_machine_id, ordenes, machines, graph, desde, hasta) ==
    IF desde > hasta THEN st
    ELSE IF desde = hasta
    THEN Fase1Orden(st, current_machine_id, ordenes[desde], machines, graph)
    ELSE Bind(Fase1Ordenes(st, current_machine_id, ordenes, machines, graph,
                           desde, (desde + hasta) \div 2),
              LAMBDA st1 : Fase1Ordenes(st1, current_machine_id, ordenes, machines, graph,
                                        (desde + hasta) \div 2 + 1, hasta))

\* lines 473-526: phase 1 over the machines, in the order of the dict
RECURSIVE Fase1(_, _, _, _, _)
Fase1(st, obm, machines, graph, k) ==
    IF k > Len(obm.keys) THEN st
    ELSE
      LET m == obm.keys[k]
      IN  IF m \notin DOMAIN machines \/ GraphGet(graph, m) = {}
          THEN Fase1(st, obm, machines, graph, k + 1)
          ELSE Bind(Fase1Ordenes(st, m, obm.val[m], machines, graph, 1, Len(obm.val[m])),
                    LAMBDA st1 : Fase1(st1, obm, machines, graph, k + 1))

\* lines 569-582: the compatible machine with the lowest load (0 = None)
RECURSIVE Fase2Buscar(_, _, _, _, _, _, _)
Fase2Buscar(comps, mejor, num_colores, carga_actual, loads, machines, k) ==
    IF k > Len(comps) THEN mejor
    ELSE
      LET comp_id == comps[k]
      IN  IF comp_id \notin DOMAIN machines
          THEN Fase2Buscar(comps, mejor, num_colores, carga_actual, loads, machines, k + 1)
          ELSE
            LET comp_load == LoadGet(loads, comp_id)
                comp_inks == FunctionalInks(machines[comp_id])
            IN  IF num_colores <= comp_inks /\ comp_load < mejor.min_load
                   /\ (carga_actual - comp_load) >= BalanceGap
                THEN Fase2Buscar(comps, [target |-> comp_id, min_load |-> comp_load],
                                 num_colores, carga_actual, loads, machines, k + 1)
                ELSE Fase2Buscar(comps, mejor, num_colores, carga_actual, loads, machines, k + 1)

\* variant: phase 2 does not look at ordenes_ya_reasignadas
YaReasignada_ignorada(st, orden) == FALSE

\* line 553: "if orden.id in ordenes_ya_reasignadas: continue" of phase 2
YaReasignada(st, orden) == orden.id \in st.ya

\* lines 552-596: one order of the machine being visited in phase 2; b carries
\* the state with the loop's locals carga_actual and
\* ordenes_movidas_de_esta_maquina, and parar once the loop has hit its break;
\* balanceos keeps, for every move, the loads and carga_actual it was decided on
Fase2Orden(b, m, orden, max_mover, machines, graph) ==
    IF b.parar \/ YaReasignada(b.st, orden) THEN b
    ELSE IF b.movidas >= max_mover THEN [b EXCEPT !.parar = TRUE]
    ELSE
      LET mejor == Fase2Buscar(SetToSeq(GraphGet(graph, m)),
                               [target |-> 0, min_load |-> b.carga_actual],
                               NumColoresJson(orden), b.carga_actual, b.st.loads, machines, 1)
          l1 == LoadSet(b.st.loads, m, LoadGet(b.st.loads, m) - 1)
      IN  IF mejor.target # 0
          THEN [st |-> [b.st EXCEPT
                           !.loads = LoadSet(l1, mejor.target, LoadGet(l1, mejor.target) + 1),
                           !.reasignaciones = Append(b.st.reasignaciones,
                                                     [orden_id |-> orden.id,
                                                      destino |-> mejor.target,
                                                      razon |-> "Balanceo"]),
                           !.ya = b.st.ya \cup {orden.id},
                           !.balanceos = Append(b.st.balanceos,
                                                [orden_id |-> orden.id,
                                                 origen |-> m,
                                                 destino |-> mejor.target,
                                                 num_colores |-> NumColoresJson(orden),
                                                 carga_actual |-> b.carga_actual,
                                                 loads |-> b.st.loads])],
                carga_actual |-> b.carga_actual - 1,
                movidas |-> b.movidas + 1,
                parar |-> FALSE]
          ELSE b

\* the orders desde..hasta of the machine, in list order (the range is halved
\* so that the evaluation stays shallow on long lists)
RECURSIVE Fase2Ordenes(_, _, _, _, _, _, _, _)
Fase2Ordenes(b, m, ordenes, max_mover, machines, graph, desde, hasta) ==
    IF desde > hasta THEN b
    ELSE IF desde = hasta
    THEN Fase2Orden(b, m, ordenes[desde], max_mover, machines, graph)
    ELSE Bind(Fase2Ordenes(b, m, ordenes, max_mover, machines, graph,
                           desde, (desde + hasta) \div 2),
              LAMBDA b1 : Fase2Ordenes(b1, m, ordenes, max_mover, machines, graph,
                                       (desde + hasta) \div 2 + 1, hasta))

\* variant: only the floor of 15 orders limits the moves
MaxOrdenesAMover_sin_porcentaje(carga_actual) == carga_actual - BalanceFloor

\* min(int(carga_actual * 0.3), carga_actual - 15)
MaxOrdenesAMover(carga_actual) ==
    Min((carga_actual * BalancePct) \div 100, carga_actual - BalanceFloor)

\* lines 530-596: phase 2 over the machines in the given visiting order
RECURSIVE Fase2(_, _, _, _, _, _)
Fase2(st, orden_visita, obm, machines, graph, k) ==
    IF k > Len(orden_visita) THEN st
    ELSE
      LET m == orden_visita[k]
          carga_actual == LoadGet(st.loads, m)
          ordenes == IF m \in Range(obm.keys) THEN obm.val[m] ELSE <<>>
      IN  IF carga_actual <= BalanceThreshold \/ m \notin DOMAIN machines
             \/ GraphGet(graph, m) = {}
          THEN Fase2(st, orden_visita, obm, machines, graph, k + 1)
          ELSE Bind(Fase2Ordenes([st |-> st, carga_actual |-> carga_actual,
                                  movidas |-> 0, parar |-> FALSE],
                                 m, ordenes, MaxOrdenesAMover(carga_actual),
                                 machines, graph, 1, Len(ordenes)),
                    LAMBDA b1 : Fase2(b1.st, orden_visita, obm, machines, graph, k + 1))

\* sorted(machine_loads.keys(), key=load, reverse=True): stable, descending
OrdenVisitaFase2(loads) ==
    LET idx == SortedIdx([i \in DOMAIN loads.keys |-> 0 - loads.val[loads.keys[i]]])
    IN  [p \in DOMAIN loads.keys |-> loads.keys[idx[p]]]

\* lines 465-470: the state before phase 1
PlanInicial(obm) ==
    [loads |-> [keys |-> obm.keys, val |-> [m \in Range(obm.keys) |-> Len(obm.val[m])]],
     reasignaciones |-> <<>>,
     ya |-> {},
     vistas |-> <<>>,
     balanceos |-> <<>>]

ReasignarFase1(obm, machines, graph) == Fase1(PlanInicial(obm), obm, machines, graph, 1)

ReasignarFase2(st, obm, machines, graph) ==
    Bind(OrdenVisitaFase2(st.loads), LAMBDA visita : Fase2(st, visita, obm, machines, graph, 1))

\* OptimizadorTotal._reasignar_ordenes_inteligente: the list of reassignments
reasignar_ordenes_inteligente(obm, machines, graph) ==
    Bind(ReasignarFase1(obm, machines, graph),
         LAMBDA st1 : ReasignarFase2(st1, obm, machines, graph).reasignaciones)

----------------------------------------------------------------------------
(* Scheduling service (SchedulingService): shared steps of the use-cases *)

Now(c) == c * 60 * TicksPerMin

\* the most store reads one request makes (prioritize_pedido)
LecturasPorPeticion == 4

\* How the store behaves during one request.  lectura: the store read that
\* raises, counted from 1 in the order the use-case makes them (0 = none);
\* escritura: the machines whose write fails; lanza: a failing write raises
\* (TRUE) or returns False (FALSE).  A failed write leaves the table as it was.
SinFallo == [lectura |-> 0, escritura |-> {}, lanza |-> FALSE]

\* the behaviours of a store for a use-case that makes n reads
Fallos(n) ==
    {SinFallo}
        \cup {[lectura |-> k, escritura |-> {}, lanza |-> FALSE] : k \in 1..n}
        \cup {[lectura |-> 0, escritura |-> ms, lanza |-> b] :
                 ms \in (SUBSET {m \in MachineIds : MaquinaActiva(m)}) \ {{}},
                 b \in BOOLEAN}

\* what a request did: ok is the success flag of the CommandResponse, ga the
\* sets of orders handed to the sequencer, written the machines whose rows were
\* written, fallidas the machines for which a write was attempted and failed,
\* escapa whether an exception left the use-case instead of a response
Resultado(op, ok, machine, target, reoptimize, ga, written) ==
    [op |-> op, ok |-> ok, machine |-> machine, target |-> target,
     reoptimize |-> reoptimize, ga |-> ga, written |-> written,
     fallidas |-> {}, escapa |-> FALSE, fallo |-> SinFallo]

\* sorted([o for o in orders if o.fecha_forzosa_entrega is not None], key=fecha)
OrdenesForzosas(orders) ==
    LET forzosa(o) == o.fecha_forzosa_entrega # NULL
    IN  Bind(SelectSeq(orders, forzosa), LAMBDA f :
        Bind(SortedIdx([i \in DOMAIN f |-> f[i].fecha_forzosa_entrega]), LAMBDA idx :
            [p \in DOMAIN f |-> f[idx[p]]] \o <<>>))

\* [o for o in orders if o.fecha_forzosa_entrega is None]
OrdenesOptimizables(orders) ==
    LET libre(o) == o.fecha_forzosa_entrega = NULL
    IN  SelectSeq(orders, libre)

Ids(orders) == [i \in DOMAIN orders |-> orders[i].id] \o <<>>

\* the sequencer is skipped for 0 or 1 optimizable orders
UsaGA(orders) == Len(OrdenesOptimizables(orders)) > 1

\* the values secuencia_optimizada_ids can take
SecuenciasOptimizadas(orders) ==
    IF UsaGA(orders)
    THEN GAResults(Ids(OrdenesOptimizables(orders)))
    ELSE {Ids(OrdenesOptimizables(orders))}

\* variant: the optimized ids first, the forced orders after them
SecuenciaFinal_libres_primero(orders, secuencia_optimizada_ids) ==
    LET obj(oid) == orders[CHOOSE i \in DOMAIN orders : orders[i].id = oid]
    IN  [i \in DOMAIN secuencia_optimizada_ids |-> obj(secuencia_optimizada_ids[i])]
            \o OrdenesForzosas(orders)

\* secuencia_final_con_razon, as objects: forced orders first, then the optimized ids
SecuenciaFinal(orders, secuencia_optimizada_ids) ==
    LET obj(oid) == orders[CHOOSE i \in DOMAIN orders : orders[i].id = oid]
    IN  OrdenesForzosas(orders)
            \o [i \in DOMAIN secuencia_optimizada_ids |-> obj(secuencia_optimizada_ids[i])]

\* variant: enumerate(...) from its default start 0
NewScheduleForDb_desde_cero(ordenes_con_fechas, machine_id, razon_optimizada) ==
    [i \in DOMAIN ordenes_con_fechas |->
        [id |-> NULL,
         order_id |-> ordenes_con_fechas[i].id,
         machine_id |-> machine_id,
         order_production |-> i - 1,
         reason |-> razon_optimizada,
         probable_delivery_date |-> ordenes_con_fechas[i].probable_fecha_entrega,
         tiempo_setup_min |-> ordenes_con_fechas[i].tiempo_setup_min,
         tiempo_cambios_internos_min |-> ordenes_con_fechas[i].tiempo_cambios_internos_min,
         tiempo_impresion_min |-> ordenes_con_fechas[i].tiempo_impresion_min,
         tiempo_buffer_min |-> ordenes_con_fechas[i].tiempo_buffer_min,
         tiempo_total_min |-> ordenes_con_fechas[i].tiempo_total_min]]

\* the rows handed to overwrite_machine_schedule: enumerate(..., start=1)
NewScheduleForDb(ordenes_con_fechas, machine_id, razon_optimizada) ==
    [i \in DOMAIN ordenes_con_fechas |->
        [id |-> NULL,
         order_id |-> ordenes_con_fechas[i].id,
         machine_id |-> machine_id,
         order_production |-> i,
         reason |-> IF pedidos[ordenes_con_fechas[i].id].fecha_forzosa_entrega # NULL
                    THEN "forzosa" ELSE razon_optimizada,
         probable_delivery_date |-> ordenes_con_fechas[i].probable_fecha_entrega,
         tiempo_setup_min |-> ordenes_con_fechas[i].tiempo_setup_min,
         tiempo_cambios_internos_min |-> ordenes_con_fechas[i].tiempo_cambios_internos_min,
         tiempo_impresion_min |-> ordenes_con_fechas[i].tiempo_impresion_min,
         tiempo_buffer_min |-> ordenes_con_fechas[i].tiempo_buffer_min,
         tiempo_total_min |-> ordenes_con_fechas[i].tiempo_total_min]]

\* steps 4 and 5 of the schedule use-cases for one machine
PlanificarMaquina(orders, secuencia_optimizada_ids, ahora, machine, razon_optimizada) ==
    Bind(calcular_fechas_probables(ServiceConfig,
                                   SecuenciaFinal(orders, secuencia_optimizada_ids),
                                   Now(ahora), machine),
         LAMBDA ordenes_con_fechas :
            NewScheduleForDb(ordenes_con_fechas, machine.id, razon_optimizada) \o <<>>)

----------------------------------------------------------------------------
(* Use-case 1: SchedulingService.generate_optimal_schedule *)

GenerateOptimalSchedule(mid, fallo) ==
    LET op == "generate_optimal_schedule"
        orders == get_schedulable_orders_for_machine(mid)
        res(ok, ga, written) ==
            [Resultado(op, ok, mid, NULL, FALSE, ga, written) EXCEPT !.fallo = fallo]
    IN
    /\ steps < MaxSteps
    /\ steps' = steps + 1
       \* the machine lookup raises: caught at line 174
    /\ \/ /\ fallo.lectura = 1
          /\ lastOp' = res(FALSE, {}, {})
          /\ UNCHANGED <<pedidos, queue, clock, gestor, plan, calc, run, ag, peticiones>>
       \/ /\ fallo.lectura # 1
          /\ ~MaquinaActiva(mid)
          /\ lastOp' = res(FALSE, {}, {})
          /\ UNCHANGED <<pedidos, queue, clock, gestor, plan, calc, run, ag, peticiones>>
       \* the read of the schedulable orders raises: caught at line 174
       \/ /\ fallo.lectura = 2
          /\ MaquinaActiva(mid)
          /\ lastOp' = res(FALSE, {}, {})
          /\ UNCHANGED <<pedidos, queue, clock, gestor, plan, calc, run, ag, peticiones>>
       \/ /\ fallo.lectura \notin {1, 2}
          /\ MaquinaActiva(mid)
          /\ orders = <<>>
          /\ lastOp' = res(TRUE, {}, {})
          /\ UNCHANGED <<pedidos, queue, clock, gestor, plan, calc, run, ag, peticiones>>
       \/ /\ fallo.lectura \notin {1, 2}
          /\ MaquinaActiva(mid)
          /\ orders # <<>>
          /\ \E opt \in SecuenciasOptimizadas(orders), ahora \in clock..MaxClock :
             \E ga \in {IF UsaGA(orders)
                         THEN {Range(Ids(OrdenesOptimizables(orders)))} ELSE {}} :
               /\ clock' = ahora
               /\ IF mid \in fallo.escritura
                  \* the overwrite raises (line 174) or returns False (line 167)
                  THEN /\ queue' = queue
                       /\ lastOp' = [res(FALSE, ga, {}) EXCEPT !.fallidas = {mid}]
                  ELSE /\ queue' = overwrite_machine_schedule(queue, mid,
                                       PlanificarMaquina(orders, opt, ahora, Maquinas[mid],
                                                         "genetico"))
                       /\ lastOp' = res(TRUE, ga, {mid})
          /\ UNCHANGED <<pedidos, gestor, plan, calc, run, ag, peticiones>>

----------------------------------------------------------------------------
(* Use-case 3: SchedulingService.prioritize_pedido *)

\* variant: only the rows whose position differs from the one read are updated
UpdatesForDb_solo_cambios(current_queue_items, new_sequence) ==
    LET cambia(e) ==
            \E k \in DOMAIN current_queue_items :
                /\ current_queue_items[k].id = e.id
                /\ current_queue_items[k].order_production # e.order_production
        fila(p_id) ==
            IF \E k \in DOMAIN current_queue_items : current_queue_items[k].order_id = p_id
            THEN current_queue_items[
                     CHOOSE k \in DOMAIN current_queue_items :
                         /\ current_queue_items[k].order_id = p_id
                         /\ \A j \in 1..(k-1) : current_queue_items[j].order_id # p_id].id
            ELSE NULL
    IN  SelectSeq([i \in DOMAIN new_sequence |->
                      [id |-> fila(new_sequence[i]), order_production |-> i]],
                  cambia)

\* step 8: one update per order of the new sequence that has a queue row,
\* numbered by its position in the new sequence
UpdatesForDb(current_queue_items, new_sequence) ==
    LET conRegistro(e) == e.id # NULL
        fila(p_id) ==
            IF \E k \in DOMAIN current_queue_items : current_queue_items[k].order_id = p_id
            THEN current_queue_items[
                     CHOOSE k \in DOMAIN current_queue_items :
                         /\ current_queue_items[k].order_id = p_id
                         /\ \A j \in 1..(k-1) : current_queue_items[j].order_id # p_id].id
            ELSE NULL
    IN  SelectSeq([i \in DOMAIN new_sequence |->
                      [id |-> fila(new_sequence[i]), order_production |-> i]],
                  conRegistro)

\* steps 4-7: the gestor is built on the machine's queue and its schedulable
\* orders; every outcome of the priority operation
GestorOutcomes(q, maquina_id, pedido_id, reoptimize) ==
    Bind(get_production_queue_for_machine(q, maquina_id), LAMBDA current_queue_items :
    Bind(get_schedulable_orders_for_machine(maquina_id), LAMBDA schedulable :
    Bind(GestorNuevo([i \in DOMAIN current_queue_items |-> current_queue_items[i].order_id],
                     Range(Ids(schedulable))), LAMBDA g0 :
        IF reoptimize
        THEN priorizar_con_reoptimizacion(g0, pedido_id)
        ELSE {[g |-> priorizar_sin_reprogramar(g0, pedido_id), raised |-> FALSE, ga |-> {}]})))

\* variant: no row counts as already first
EsPrimero_nunca(item) == FALSE

\* step 2: the row to prioritize is already in first position
EsPrimero(item) == item.order_production = 1

PrioritizePedido(pedido_id, reoptimize, fallo) ==
    LET op == "prioritize_pedido"
        items == {r \in queue : r.order_id = pedido_id}
        item == CHOOSE r \in items : TRUE
        maquina_id == item.machine_id
        res(ok, machine, ga) ==
            [Resultado(op, ok, machine, pedido_id, reoptimize, ga, {}) EXCEPT !.fallo = fallo]
        falla(ga) == /\ lastOp' = res(FALSE, NULL, ga)
                     /\ UNCHANGED <<pedidos, queue, clock, gestor, plan, calc, run, ag, peticiones>>
    IN
    /\ steps < MaxSteps
    /\ steps' = steps + 1
       \* the read of the queue row raises: caught at line 582
    /\ \/ /\ fallo.lectura = 1
          /\ falla({})
       \* no queue row, or scalar_one_or_none raising on several rows
       \/ /\ fallo.lectura # 1
          /\ Cardinality(items) # 1
          /\ falla({})
       \* already first: success, nothing written
       \/ /\ fallo.lectura # 1
          /\ Cardinality(items) = 1
          /\ EsPrimero(item)
          /\ lastOp' = res(TRUE, maquina_id, {})
          /\ UNCHANGED <<pedidos, queue, clock, gestor, plan, calc, run, ag, peticiones>>
       \* the machine lookup or one of the two reads of lines 468-469 raises
       \/ /\ fallo.lectura \in 2..LecturasPorPeticion
          /\ Cardinality(items) = 1
          /\ ~EsPrimero(item)
          /\ falla({})
       \* machine missing or not active, or target not schedulable on it
       \/ /\ fallo.lectura = 0
          /\ Cardinality(items) = 1
          /\ ~EsPrimero(item)
          /\ ~(MaquinaActiva(maquina_id)
                /\ pedido_id \in Range(Ids(get_schedulable_orders_for_machine(maquina_id))))
          /\ falla({})
       \/ /\ fallo.lectura = 0
          /\ Cardinality(items) = 1
          /\ ~EsPrimero(item)
          /\ MaquinaActiva(maquina_id)
          /\ pedido_id \in Range(Ids(get_schedulable_orders_for_machine(maquina_id)))
          /\ \E out \in GestorOutcomes(queue, maquina_id, pedido_id, reoptimize) :
               \E updates \in {UpdatesForDb(get_production_queue_for_machine(queue, maquina_id),
                                            out.g.secuencia)} :
                   IF out.raised \/ pedido_id \notin Range(out.g.secuencia) \/ updates = <<>>
                   THEN falla(out.ga)
                   \* the update raises (line 582) or returns False (line 575)
                   ELSE IF maquina_id \in fallo.escritura
                   THEN /\ lastOp' = [res(FALSE, NULL, out.ga) EXCEPT
                                         !.fallidas = {maquina_id}]
                        /\ UNCHANGED <<pedidos, queue, clock, gestor, plan, calc, run, ag, peticiones>>
                   ELSE /\ queue' = update_production_queue(queue, updates)
                        /\ lastOp' = res(TRUE, maquina_id, out.ga)
                        /\ UNCHANGED <<pedidos, clock, gestor, plan, calc, run, ag, peticiones>>

----------------------------------------------------------------------------
(* Use-case 4: SchedulingService.recalculate_delivery_dates *)

\* step 4: one update per calculated order that carries a queue row id
UpdatesFechas(ordenes_con_fechas) ==
    LET conId(o) == o.id_en_cola # NULL
        v == SelectSeq(ordenes_con_fechas, conId)
    IN  [i \in DOMAIN v |->
            [id |-> v[i].id_en_cola,
             probable_delivery_date |-> v[i].probable_fecha_entrega,
             tiempo_setup_min |-> v[i].tiempo_setup_min,
             tiempo_cambios_internos_min |-> v[i].tiempo_cambios_internos_min,
             tiempo_impresion_min |-> v[i].tiempo_impresion_min,
             tiempo_buffer_min |-> v[i].tiempo_buffer_min,
             tiempo_total_min |-> v[i].tiempo_total_min]]

RecalculateDeliveryDates(mid, fallo) ==
    LET op == "recalculate_delivery_dates"
        ordenes_secuenciadas == get_schedulable_orders_by_ids(queue, mid)
        res(ok) == [Resultado(op, ok, mid, NULL, FALSE, {}, {}) EXCEPT !.fallo = fallo]
    IN
    /\ steps < MaxSteps
    /\ steps' = steps + 1
       \* the machine lookup raises with machine_info still None: the handler of
       \* line 714 formats machine_info.id (line 715) and raises AttributeError
    /\ \/ /\ fallo.lectura = 1
          /\ lastOp' = [res(FALSE) EXCEPT !.escapa = TRUE]
          /\ UNCHANGED <<pedidos, queue, clock, gestor, plan, calc, run, ag, peticiones>>
       \/ /\ fallo.lectura # 1
          /\ mid \notin MachineIds
          /\ lastOp' = res(FALSE)
          /\ UNCHANGED <<pedidos, queue, clock, gestor, plan, calc, run, ag, peticiones>>
       \* the read of the queue raises: caught at line 714, machine_info is set
       \/ /\ fallo.lectura = 2
          /\ mid \in MachineIds
          /\ lastOp' = res(FALSE)
          /\ UNCHANGED <<pedidos, queue, clock, gestor, plan, calc, run, ag, peticiones>>
       \/ /\ fallo.lectura \notin {1, 2}
          /\ mid \in MachineIds
          /\ ordenes_secuenciadas = <<>>
          /\ lastOp' = res(TRUE)
          /\ UNCHANGED <<pedidos, queue, clock, gestor, plan, calc, run, ag, peticiones>>
       \/ /\ fallo.lectura \notin {1, 2}
          /\ mid \in MachineIds
          /\ ordenes_secuenciadas # <<>>
          /\ \E ahora \in clock..MaxClock :
               /\ clock' = ahora
               /\ IF mid \in fallo.escritura
                  \* the update raises (line 714) or returns False (line 707)
                  THEN /\ queue' = queue
                       /\ lastOp' = [res(FALSE) EXCEPT !.fallidas = {mid}]
                  ELSE /\ queue' = update_queue_dates_and_times(queue,
                                       UpdatesFechas(calcular_fechas_probables(
                                           ServiceConfig, ordenes_secuenciadas, Now(ahora),
                                           Maquinas[mid])))
                       /\ lastOp' = res(TRUE)
          /\ UNCHANGED <<pedidos, gestor, plan, calc, run, ag, peticiones>>

----------------------------------------------------------------------------
(* Use-case 2: SchedulingService.generate_optimal_schedule_all_machines *)

\* step 4: orders grouped by their current machine, keys in order of first appearance
GroupByMachine(orders) ==
    LET ms == {orders[i].maquina : i \in DOMAIN orders}
        primera(m) == CHOOSE i \in DOMAIN orders :
                          orders[i].maquina = m /\ \A j \in 1..(i-1) : orders[j].maquina # m
        idx == SortedIdx([i \in 1..Cardinality(ms) |-> primera(SetToSeq(ms)[i])])
    IN  [keys |-> [p \in 1..Cardinality(ms) |-> SetToSeq(ms)[idx[p]]],
         val |-> [m \in ms |-> LET de(o) == o.maquina = m IN SelectSeq(orders, de)]]

\* the machine whose list holds the order (0 = None)
Origen(obm, orden_id) ==
    IF \E k \in DOMAIN obm.keys : orden_id \in Range(Ids(obm.val[obm.keys[k]]))
    THEN obm.keys[CHOOSE k \in DOMAIN obm.keys :
                      /\ orden_id \in Range(Ids(obm.val[obm.keys[k]]))
                      /\ \A j \in 1..(k-1) : orden_id \notin Range(Ids(obm.val[obm.keys[j]]))]
    ELSE 0

ObmAppend(obm, m, orden) ==
    [keys |-> IF m \in Range(obm.keys) THEN obm.keys ELSE Append(obm.keys, m),
     val |-> [x \in Range(obm.keys) \cup {m} |->
                IF x = m
                THEN Append(IF m \in Range(obm.keys) THEN obm.val[m] ELSE <<>>, orden)
                ELSE obm.val[x]]]

RECURSIVE AgregarADestinos(_, _, _)
AgregarADestinos(obm, movs, k) ==
    IF k > Len(movs) THEN obm
    ELSE Bind(ObmAppend(obm, movs[k].destino, movs[k].orden),
              LAMBDA obm1 : AgregarADestinos(obm1, movs, k + 1))

\* lines 266-284: the moves of one source machine, removed from it, then appended
AplicarOrigen(obm, origen_id, movimientos) ==
    LET ordenes_origen == obm.val[origen_id]
        obj(oid) == ordenes_origen[CHOOSE i \in DOMAIN ordenes_origen :
                                       ordenes_origen[i].id = oid]
        hallada(mv) == mv.orden_id \in Range(Ids(ordenes_origen))
        hall == SelectSeq(movimientos, hallada)
        a_mover == [i \in DOMAIN hall |->
                       [orden |-> obj(hall[i].orden_id), destino |-> hall[i].destino]]
        quedan(o) == \A i \in DOMAIN a_mover : a_mover[i].orden.id # o.id
    IN  AgregarADestinos([obm EXCEPT !.val[origen_id] = SelectSeq(ordenes_origen, quedan)],
                         a_mover, 1)

RECURSIVE AplicarOrigenes(_, _, _, _, _)
AplicarOrigenes(obm, obm0, origenes, reasignaciones, k) ==
    IF k > Len(origenes) THEN obm
    ELSE LET de(mv) == Origen(obm0, mv.orden_id) = origenes[k]
         IN  Bind(AplicarOrigen(obm, origenes[k], SelectSeq(reasignaciones, de)),
                  LAMBDA obm1 : AplicarOrigenes(obm1, obm0, origenes, reasignaciones, k + 1))

\* lines 247-286: the reassignments grouped by source machine and applied
AplicarReasignaciones(obm, reasignaciones) ==
    LET os == {Origen(obm, reasignaciones[i].orden_id) : i \in DOMAIN reasignaciones} \ {0}
        primera(m) == CHOOSE i \in DOMAIN reasignaciones :
                          /\ Origen(obm, reasignaciones[i].orden_id) = m
                          /\ \A j \in 1..(i-1) : Origen(obm, reasignaciones[j].orden_id) # m
        idx == SortedIdx([i \in 1..Cardinality(os) |-> primera(SetToSeq(os)[i])])
        origenes == [p \in 1..Cardinality(os) |-> SetToSeq(os)[idx[p]]]
    IN  AplicarOrigenes(obm, obm, origenes, reasignaciones, 1)

\* lines 379-386: one overwrite per machine that got a schedule, in dict order.
\* b.q is the table so far, b.escritas the machines counted in machines_updated,
\* b.fallidas the machines whose overwrite failed, b.lanzo whether an overwrite
\* raised, which ends the loop
RECURSIVE GuardarPorMaquina(_, _, _, _, _)
GuardarPorMaquina(b, keys, schedules, k, fallo) ==
    IF k > Len(keys) \/ b.lanzo THEN b
    ELSE IF keys[k] \in DOMAIN schedules /\ schedules[keys[k]] # <<>>
    THEN Bind(IF keys[k] \in fallo.escritura
              THEN [b EXCEPT !.lanzo = fallo.lanza,
                             !.fallidas = b.fallidas \cup {keys[k]}]
              ELSE [b EXCEPT !.q = overwrite_machine_schedule(b.q, keys[k],
                                                              schedules[keys[k]]),
                             !.escritas = b.escritas \cup {keys[k]}],
              LAMBDA b1 : GuardarPorMaquina(b1, keys, schedules, k + 1, fallo))
    ELSE GuardarPorMaquina(b, keys, schedules, k + 1, fallo)

GenerateOptimalScheduleAllMachines(reoptimize, fallo) ==
    LET op == "generate_optimal_schedule_all_machines"
        active_ids == {m \in MachineIds : MaquinaActiva(m)}
        active_machines == [m \in active_ids |-> Maquinas[m]]
        all_schedulable_orders == get_schedulable_orders_for_all_machines
        machine_graph == build_machine_compatibility_graph(active_machines)
        obm0 == GroupByMachine(all_schedulable_orders)
        reasignaciones == reasignar_ordenes_inteligente(obm0, active_machines, machine_graph)
        \* machines that get a schedule: some order assigned and machine info found
        Planificadas(obm) == {m \in Range(obm.keys) : obm.val[m] # <<>> /\ m \in active_ids}
        Opciones(obm) ==
            UNION {{[opt |-> o, ahora |-> t] :
                       o \in SecuenciasOptimizadas(obm.val[m]), t \in clock..MaxClock} :
                   m \in Planificadas(obm)}
        res(ok, ga, written) ==
            [Resultado(op, ok, NULL, NULL, reoptimize, ga, written) EXCEPT !.fallo = fallo]
        falla == /\ lastOp' = res(FALSE, {}, {})
                 /\ UNCHANGED <<pedidos, queue, clock, gestor, plan, calc, run, ag, peticiones>>
    IN
    /\ steps < MaxSteps
    /\ steps' = steps + 1
    /\ \/ /\ ~reoptimize
          /\ falla
       \* the read of the machines raises: caught at line 407
       \/ /\ reoptimize
          /\ fallo.lectura = 1
          /\ falla
       \/ /\ reoptimize
          /\ fallo.lectura # 1
          /\ active_ids = {}
          /\ falla
       \* the read of the schedulable orders raises: caught at line 407
       \/ /\ reoptimize
          /\ fallo.lectura = 2
          /\ active_ids # {}
          /\ falla
       \/ /\ reoptimize
          /\ fallo.lectura \notin {1, 2}
          /\ active_ids # {}
          /\ all_schedulable_orders = <<>>
          /\ lastOp' = res(TRUE, {}, {})
          /\ UNCHANGED <<pedidos, queue, clock, gestor, plan, calc, run, ag, peticiones>>
       \/ /\ reoptimize
          /\ fallo.lectura \notin {1, 2}
          /\ active_ids # {}
          /\ all_schedulable_orders # <<>>
          /\ \E obm \in {AplicarReasignaciones(obm0, reasignaciones)} :
             \E ms \in {Planificadas(obm)} :
               \* no machine got a schedule
               \/ /\ ms = {}
                  /\ falla
               \* the sequence and the clock reading of every machine, then the writes
               \/ /\ ms # {}
                  /\ \E f \in [ms -> Opciones(obm)] :
                     \E msSeq \in {SelectSeq(obm.keys, LAMBDA m : m \in ms)} :
                       /\ \A m \in ms : f[m].opt \in SecuenciasOptimizadas(obm.val[m])
                       /\ \A i, j \in DOMAIN msSeq :
                             i < j => f[msSeq[i]].ahora <= f[msSeq[j]].ahora
                       /\ clock' = f[msSeq[Len(msSeq)]].ahora
                       /\ \E b \in {GuardarPorMaquina(
                                        [q |-> queue, escritas |-> {}, fallidas |-> {},
                                         lanzo |-> FALSE],
                                        obm.keys,
                                        [m \in ms |->
                                            PlanificarMaquina(obm.val[m], f[m].opt, f[m].ahora,
                                                              Maquinas[m], "genetico global")],
                                        1, fallo)} :
                            /\ queue' = b.q
                            \* an overwrite that raised is caught at line 407; one
                            \* that returned False only leaves machines_updated behind
                            /\ lastOp' = [res(~b.lanzo,
                                              {Range(Ids(OrdenesOptimizables(obm.val[m]))) :
                                                  m \in {x \in ms : UsaGA(obm.val[x])}},
                                              b.escritas)
                                          EXCEPT !.fallidas = b.fallidas]
                  /\ UNCHANGED <<pedidos, gestor, plan, calc, run, ag, peticiones>>

----------------------------------------------------------------------------
(* Lifecycle of orders outside the service: an order leaves scheduling when
   its status passes 5 *)

OrderExits(o) ==
    /\ steps < MaxSteps
    /\ steps' = steps + 1
    /\ pedidos[o].status <= StatusLimit
    /\ pedidos' = [pedidos EXCEPT ![o].status = StatusLimit + 1]
    /\ UNCHANGED <<queue, clock, lastOp, gestor, plan, calc, run, ag, peticiones>>

----------------------------------------------------------------------------
(* The service over the store *)

Idle == [estado |-> "idle"]

\* the store before any request: the orders exist, no queue row yet
StoreInicial ==
    /\ pedidos = [o \in 1..NumOrders |-> PedidoInicial(o)]
    /\ queue = {}
    /\ clock = 0
    /\ steps = 0
    /\ lastOp = Resultado("init", TRUE, NULL, NULL, FALSE, {}, {})

Init ==
    /\ ag = Idle
    /\ peticiones = Idle
    /\ StoreInicial
    /\ gestor = Idle
    /\ plan = Idle
    /\ calc = Idle
    /\ run = Idle

\* the store answers every call
Next ==
    \/ \E mid \in MachineIds \cup {UnknownMachine} : GenerateOptimalSchedule(mid, SinFallo)
    \/ \E reoptimize \in BOOLEAN : GenerateOptimalScheduleAllMachines(reoptimize, SinFallo)
    \/ \E pedido_id \in 1..(NumOrders + 1), reoptimize \in BOOLEAN :
          PrioritizePedido(pedido_id, reoptimize, SinFallo)
    \/ \E mid \in MachineIds \cup {UnknownMachine} : RecalculateDeliveryDates(mid, SinFallo)
    \/ \E o \in DOMAIN pedidos : OrderExits(o)

Spec == Init /\ [][Next]_vars

----------------------------------------------------------------------------
(* The service over a store whose calls can fail (specification SpecStore):
   the last request of a run.  Before it, a generate_optimal_schedule request
   for machine 1 was served and then requests for an unknown machine were
   refused. *)

InitStore ==
    /\ ag = Idle
    /\ peticiones = Idle
    /\ pedidos = [o \in 1..NumOrders |-> PedidoInicial(o)]
    /\ \E opt \in SecuenciasOptimizadas(get_schedulable_orders_for_machine(1)),
          ahora \in 0..MaxClock :
          /\ queue = overwrite_machine_schedule(
                         {}, 1,
                         PlanificarMaquina(get_schedulable_orders_for_machine(1), opt,
                                           ahora, Maquinas[1], "genetico"))
          /\ clock = ahora
    /\ steps = MaxSteps - 1
    /\ lastOp = Resultado("generate_optimal_schedule", FALSE, UnknownMachine, NULL, FALSE,
                          {}, {})
    /\ gestor = Idle
    /\ plan = Idle
    /\ calc = Idle
    /\ run = Idle

NextStore ==
    \/ \E mid \in MachineIds \cup {UnknownMachine}, fallo \in Fallos(2) :
          GenerateOptimalSchedule(mid, fallo)
    \/ \E reoptimize \in BOOLEAN, fallo \in Fallos(2) :
          GenerateOptimalScheduleAllMachines(reoptimize, fallo)
    \/ \E pedido_id \in 1..(NumOrders + 1), reoptimize \in BOOLEAN,
          fallo \in Fallos(LecturasPorPeticion) :
          PrioritizePedido(pedido_id, reoptimize, fallo)
    \/ \E mid \in MachineIds \cup {UnknownMachine}, fallo \in Fallos(2) :
          RecalculateDeliveryDates(mid, fallo)

SpecStore == InitStore /\ [][NextStore]_vars

----------------------------------------------------------------------------
(* One generate_optimal_schedule_all_machines(reoptimize=True) request taken
   line by line: the loads and the re-assignment, the loop that plans each
   machine, the loop that saves each machine, the response (specification
   SpecRun).  The request can be interrupted at any point, by an exception or
   by its cancellation. *)

\* the table before the request: empty, or as generate_optimal_schedule wrote
\* it for machine 1 at clock 0, before any order left scheduling
RunColas ==
    LET orders == OrdenSql({o \in DOMAIN pedidos : pedidos[o].maquina = 1})
    IN  {{},
         overwrite_machine_schedule(
             {}, 1,
             PlanificarMaquina(orders, Ids(OrdenesOptimizables(orders)), 0, Maquinas[1],
                               "genetico"))}

InitRun ==
    /\ ag = Idle
    /\ peticiones = Idle
    /\ \E fuera \in SUBSET (1..NumOrders) :
          pedidos = [o \in 1..NumOrders |->
                        IF o \in fuera
                        THEN [PedidoInicial(o) EXCEPT !.status = StatusLimit + 1]
                        ELSE PedidoInicial(o)]
    /\ queue \in RunColas
    /\ clock = 0
    /\ steps = 0
    /\ lastOp = Resultado("init", TRUE, NULL, NULL, FALSE, {}, {})
    /\ gestor = Idle
    /\ plan = Idle
    /\ calc = Idle
    /\ run = [estado |-> "inicio", queue0 |-> queue]

\* the loop of lines 292-368 has gone through every machine
TodasPlanificadas(r) == r.k > Len(r.keys)

\* variant: the saving loop runs as soon as one machine has a schedule
InicioGuardado_anticipado(r) == TRUE

\* the saving loop of line 379 comes after the planning loop
InicioGuardado(r) == TodasPlanificadas(r)

\* the request has ended: what it answered and where it was cut short, if so
RunFin(r, ok, cortada) ==
    [estado |-> "fin", queue0 |-> r.queue0, ok |-> ok, cortada |-> cortada,
     intentos |-> IF r.estado = "inicio" THEN 0 ELSE r.intentos,
     machines_updated |-> IF r.estado = "inicio" THEN 0 ELSE r.machines_updated,
     planificadas |-> IF r.estado = "inicio" THEN {} ELSE DOMAIN r.all_schedules]

\* lines 199-286: machines and orders are read, orders re-assigned
RunCargar ==
    LET active_ids == {m \in MachineIds : MaquinaActiva(m)}
        active_machines == [m \in active_ids |-> Maquinas[m]]
        all_schedulable_orders == get_schedulable_orders_for_all_machines
        obm0 == GroupByMachine(all_schedulable_orders)
    IN
    /\ run.estado = "inicio"
    /\ IF active_ids = {} \/ all_schedulable_orders = <<>>
       THEN run' = RunFin(run, active_ids # {}, "no")
       ELSE \E obm \in {AplicarReasignaciones(
                            obm0,
                            reasignar_ordenes_inteligente(
                                obm0, active_machines,
                                build_machine_compatibility_graph(active_machines)))} :
              run' = [estado |-> "planificando", queue0 |-> run.queue0,
                      obm |-> obm, keys |-> obm.keys, k |-> 1,
                      all_schedules |-> [m \in {} |-> <<>>],
                      j |-> 1, intentos |-> 0, machines_updated |-> 0]
    /\ UNCHANGED <<pedidos, queue, clock, steps, lastOp, gestor, plan, calc, ag, peticiones>>

\* lines 292-368, one iteration: the machine keys[k] gets its sequence and dates
RunPlanificar ==
    /\ run.estado = "planificando"
    /\ ~TodasPlanificadas(run)
    /\ LET m == run.keys[run.k]
           ordenes == run.obm.val[m]
       IN  IF ordenes = <<>> \/ ~MaquinaActiva(m)
           THEN /\ run' = [run EXCEPT !.k = run.k + 1]
                /\ UNCHANGED clock
           ELSE \E opt \in SecuenciasOptimizadas(ordenes), ahora \in clock..MaxClock :
                  /\ run' = [run EXCEPT
                                !.k = run.k + 1,
                                !.all_schedules =
                                    [x \in DOMAIN run.all_schedules \cup {m} |->
                                        IF x = m
                                        THEN PlanificarMaquina(ordenes, opt, ahora, Maquinas[m],
                                                               "genetico global")
                                        ELSE run.all_schedules[x]]]
                  /\ clock' = ahora
    /\ UNCHANGED <<pedidos, queue, steps, lastOp, gestor, plan, calc, ag, peticiones>>

\* lines 379-386, one iteration: the schedule of keys[j] is handed to the store,
\* whose overwrite succeeds or returns False
RunGuardar ==
    /\ run.estado = "planificando"
    /\ InicioGuardado(run)
    /\ DOMAIN run.all_schedules # {}
    /\ run.j <= Len(run.keys)
    /\ LET m == run.keys[run.j]
       IN  IF m \notin DOMAIN run.all_schedules
           THEN /\ run' = [run EXCEPT !.j = run.j + 1]
                /\ UNCHANGED queue
           ELSE \/ /\ queue' = overwrite_machine_schedule(queue, m, run.all_schedules[m])
                   /\ run' = [run EXCEPT !.j = run.j + 1,
                                         !.intentos = run.intentos + 1,
                                         !.machines_updated = run.machines_updated + 1]
                \/ /\ queue' = queue
                   /\ run' = [run EXCEPT !.j = run.j + 1,
                                         !.intentos = run.intentos + 1]
    /\ UNCHANGED <<pedidos, clock, steps, lastOp, gestor, plan, calc, ag, peticiones>>

\* lines 371-377 and 396-405: the response
RunResponder ==
    /\ run.estado = "planificando"
    /\ TodasPlanificadas(run)
    /\ DOMAIN run.all_schedules = {} \/ run.j > Len(run.keys)
    /\ run' = RunFin(run, DOMAIN run.all_schedules # {}, "no")
    /\ UNCHANGED <<pedidos, queue, clock, steps, lastOp, gestor, plan, calc, ag, peticiones>>

\* an exception (caught at line 407) or the cancellation of the request ends it
\* where it stands: before the loads, while machines are planned, or while
\* they are saved
RunInterrumpir ==
    /\ run.estado \in {"inicio", "planificando"}
    /\ run' = RunFin(run, FALSE,
                     IF run.estado = "inicio" THEN "cargando"
                     ELSE IF ~TodasPlanificadas(run) THEN "planificando"
                     ELSE "guardando")
    /\ UNCHANGED <<pedidos, queue, clock, steps, lastOp, gestor, plan, calc, ag, peticiones>>

NextRun ==
    \/ RunCargar
    \/ RunPlanificar
    \/ RunGuardar
    \/ RunResponder
    \/ RunInterrumpir

SpecRun == InitRun /\ [][NextRun]_vars

----------------------------------------------------------------------------
(* One evaluation of the date calculator or of the print-time estimates on
   given inputs (specification SpecCalc) *)

\* PlannerConfig values: the shifts, the working days and the first hour vary
CalcConfigs ==
    {[ServiceConfig EXCEPT !.turnos_dia_semana = ts, !.horas_por_turno_semana = hs,
                           !.turnos_sabado = tb, !.horas_por_turno_sabado = hb,
                           !.dias_laborales = dl, !.hora_inicio_turno1 = h0] :
        ts \in {1, 2}, hs \in {10, 12}, tb \in {1, 2}, hb \in {8, 12},
        dl \in {0..6, 0..5, 0..4, {}}, h0 \in {7, 8}}

\* working window 07:00-19:00 from Monday to Saturday, Sunday closed
Ventana7a19 ==
    [ServiceConfig EXCEPT !.turnos_dia_semana = 1, !.horas_por_turno_semana = 12,
                          !.turnos_sabado = 1, !.horas_por_turno_sabado = 12,
                          !.dias_laborales = 0..5, !.hora_inicio_turno1 = 7]

\* start timestamps: Friday, Saturday and Sunday at several hours, 20:00 among them
CalcStarts ==
    {(dia * 24 + hora) * 60 * TicksPerMin :
        dia \in 4..6,
        hora \in {20} \cup {(24 * i) \div (CalcStartsPerDay + 1) : i \in 0..CalcStartsPerDay}}

\* durations in minutes: none, one hour, and multiples of eight hours
CalcDurations == {0, 60} \cup {480 * k : k \in 1..CalcMaxShifts}

\* orders of a sequence: those of the store, and the same without a customer
CalcOrdenes ==
    {[PedidoInicial(o) EXCEPT !.id_cliente = IF sin_cliente THEN NULL ELSE @] :
        o \in 1..NumOrders, sin_cliente \in BOOLEAN}

CalcEntradas ==
    {[estado |-> "calendario", cfg |-> cfg, fecha_inicio |-> t, minutos |-> d] :
        cfg \in CalcConfigs, t \in CalcStarts, d \in CalcDurations}
    \cup
    {[estado |-> "impresion", cfg |-> ServiceConfig,
      machine |-> [Maquinas[1] EXCEPT !.avg_velocity = v],
      orden |-> [PedidoInicial(o) EXCEPT !.total_metros_impresion = m]] :
        v \in {0, 60, DefaultVelocity}, o \in 1..2,
        m \in {0} \cup {95 * k : k \in 1..CalcMaxShifts}}
    \cup
    {[estado |-> "cambio", cfg |-> ServiceConfig, machine |-> Maquinas[1],
      orden_anterior |-> ab[1], orden_actual |-> ab[2]] :
        ab \in {x \in CalcOrdenes \X CalcOrdenes : x[1].id # x[2].id}}
    \cup
    {[estado |-> "secuencia", cfg |-> cfg, machine |-> Maquinas[1],
      ordenes |-> ab, fecha_inicio |-> t] :
        cfg \in {ServiceConfig, Ventana7a19}, t \in CalcStarts,
        ab \in {x \in CalcOrdenes \X CalcOrdenes :
                   x[1].id # x[2].id /\ x[1].id_cliente # NULL /\ x[2].id_cliente # NULL}}

InitCalc ==
    /\ ag = Idle
    /\ peticiones = Idle
    /\ StoreInicial
    /\ gestor = Idle
    /\ plan = Idle
    /\ run = Idle
    /\ calc \in CalcEntradas

\* DateCalculator._ajustar_horario_laboral(fecha_inicio, minutos)
CalcAjustar ==
    /\ calc.estado = "calendario"
    /\ calc' = [estado |-> "ajustado", cfg |-> calc.cfg,
                fecha_inicio |-> calc.fecha_inicio, minutos |-> calc.minutos,
                resultado |-> ajustar_horario_laboral(calc.cfg, calc.fecha_inicio,
                                                      calc.minutos * TicksPerMin)]
    /\ UNCHANGED <<pedidos, queue, clock, steps, lastOp, gestor, plan, run, ag, peticiones>>

\* steps 1.1-1.5 of calcular_fechas_probables for an order in first position,
\* and _estimar_tiempo_produccion for the same order and machine
CalcTiempos ==
    /\ calc.estado = "impresion"
    /\ calc' = [estado |-> "tiempos", cfg |-> calc.cfg,
                machine |-> calc.machine, orden |-> calc.orden,
                tiempos |-> TiemposOrden(calc.cfg, <<calc.orden>>, 1, calc.machine),
                estimado |-> estimar_tiempo_produccion(calc.machine, calc.orden)]
    /\ UNCHANGED <<pedidos, queue, clock, steps, lastOp, gestor, plan, run, ag, peticiones>>

\* the setup step 1.1 for orden_actual right after orden_anterior, and the
\* transition cost of the sequencer's fitness for the same pair and machine
CalcCambio ==
    /\ calc.estado = "cambio"
    /\ calc' = [estado |-> "cambiado", cfg |-> calc.cfg, machine |-> calc.machine,
                orden_anterior |-> calc.orden_anterior, orden_actual |-> calc.orden_actual,
                tiempo_setup |-> TiemposOrden(calc.cfg,
                                              <<calc.orden_anterior, calc.orden_actual>>,
                                              2, calc.machine).tiempo_setup_min,
                costo_cambio |-> calcular_costo_cambio(calc.orden_anterior,
                                                       calc.orden_actual, calc.machine)]
    /\ UNCHANGED <<pedidos, queue, clock, steps, lastOp, gestor, plan, run, ag, peticiones>>

\* DateCalculator.calcular_fechas_probables(ordenes, fecha_inicio, machine)
CalcFechas ==
    /\ calc.estado = "secuencia"
    /\ calc' = [estado |-> "fechado", cfg |-> calc.cfg, machine |-> calc.machine,
                ordenes |-> calc.ordenes, fecha_inicio |-> calc.fecha_inicio,
                fechas |-> calcular_fechas_probables(calc.cfg, calc.ordenes,
                                                     calc.fecha_inicio, calc.machine)]
    /\ UNCHANGED <<pedidos, queue, clock, steps, lastOp, gestor, plan, run, ag, peticiones>>

NextCalc ==
    \/ CalcAjustar
    \/ CalcTiempos
    \/ CalcCambio
    \/ CalcFechas

SpecCalc == InitCalc /\ [][NextCalc]_vars

----------------------------------------------------------------------------
(* One generate_optimal_schedule request for machine 1 with the run of the
   genetic sequencer inside it (specification SpecGA): the population of
   AlgoritmoGeneticoFlexo and the generations of algorithms.eaSimple, each a
   selection, the crossovers and mutations of varAnd and the update of the
   hall of fame, then steps 4 and 5 of the use-case.  The population size and
   the number of generations are bounded; which individual a tournament or the
   hall of fame keeps is left open, the fitness values are not computed. *)

\* ordenes_optimizables of the request (lines 56-72)
GAOptimizables == OrdenesOptimizables(get_schedulable_orders_for_machine(1))

\* idx_to_order_id
IdxToOrderId == Ids(GAOptimizables)

\* the store before the request: order 1 carries its forced date or none
InitGA ==
    /\ \E libres \in {{}, {1}} :
          pedidos = [o \in 1..NumOrders |->
                        IF o \in libres
                        THEN [PedidoInicial(o) EXCEPT !.fecha_forzosa_entrega = NULL]
                        ELSE PedidoInicial(o)]
    /\ queue = {}
    /\ clock = 0
    /\ steps = 0
    /\ lastOp = Resultado("init", TRUE, NULL, NULL, FALSE, {}, {})
    /\ gestor = Idle
    /\ plan = Idle
    /\ calc = Idle
    /\ run = Idle
    /\ peticiones = Idle
       \* toolbox.population(n): random.sample(range(num_items), num_items) each;
       \* eaSimple evaluates it and the hall of fame takes its best individual
    /\ \E pop \in [1..GAPoblacion -> Perms(0..(Len(IdxToOrderId) - 1))] :
       \E h \in 1..GAPoblacion :
          ag = [estado |-> "poblacion", pop |-> pop \o <<>>, hof |-> pop[h],
                gen |-> 0, j |-> 1, variaciones |-> {}]

\* toolbox.select(population, len(population)) and the clones of varAnd
GASeleccionar ==
    /\ ag.estado = "poblacion"
    /\ ag.gen < GAGeneraciones
    /\ \E sel \in [1..GAPoblacion -> 1..GAPoblacion] :
          ag' = [ag EXCEPT !.estado = "variacion",
                           !.pop = [i \in 1..GAPoblacion |-> ag.pop[sel[i]]] \o <<>>,
                           !.j = 1]
    /\ UNCHANGED <<pedidos, queue, clock, steps, lastOp, gestor, plan, calc, run, peticiones>>

\* varAnd, first loop, pair j: offspring[2j-1], offspring[2j] are mated with
\* probability cxpb
GACruzar ==
    /\ ag.estado = "variacion"
    /\ ag.j <= GAPoblacion \div 2
    /\ \/ ag' = [ag EXCEPT !.j = ag.j + 1]
       \/ \E c \in Cortes(Len(IdxToOrderId)) :
          \E hijos \in {CxOrdered(ag.pop[2 * ag.j - 1], ag.pop[2 * ag.j], c[1], c[2])} :
             ag' = [ag EXCEPT !.j = ag.j + 1,
                              !.pop[2 * ag.j - 1] = hijos[1],
                              !.pop[2 * ag.j] = hijos[2],
                              !.variaciones = ag.variaciones \cup {"mate"}]
    /\ UNCHANGED <<pedidos, queue, clock, steps, lastOp, gestor, plan, calc, run, peticiones>>

\* varAnd, second loop: one offspring is mutated with probability mutpb
GAMutar ==
    LET i == ag.j - GAPoblacion \div 2
    IN
    /\ ag.estado = "variacion"
    /\ ag.j > GAPoblacion \div 2
    /\ i <= GAPoblacion
    /\ \/ ag' = [ag EXCEPT !.j = ag.j + 1]
       \/ \E cambios \in Cambios(Len(IdxToOrderId)) :
             /\ \E p \in DOMAIN cambios : cambios[p] # NULL
             /\ ag' = [ag EXCEPT !.j = ag.j + 1,
                                 !.pop[i] = MutShuffleIndexes(ag.pop[i], cambios, 0),
                                 !.variaciones = ag.variaciones \cup {"mutate"}]
    /\ UNCHANGED <<pedidos, queue, clock, steps, lastOp, gestor, plan, calc, run, peticiones>>

\* eaSimple: the offspring are evaluated, halloffame.update keeps its
\* individual or takes one of the offspring, population[:] = offspring
GAEvaluar ==
    /\ ag.estado = "variacion"
    /\ ag.j > GAPoblacion \div 2 + GAPoblacion
    /\ \E h \in {ag.hof} \cup Range(ag.pop) :
          ag' = [ag EXCEPT !.estado = "poblacion", !.hof = h, !.gen = ag.gen + 1, !.j = 1]
    /\ UNCHANGED <<pedidos, queue, clock, steps, lastOp, gestor, plan, calc, run, peticiones>>

\* optimizar returns the ids of hof[0] (lines 263-268); the use-case builds the
\* final sequence, computes the dates and overwrites the schedule (lines 99-155)
GAGuardar ==
    LET orders == get_schedulable_orders_for_machine(1)
        best_sequence_ids == [p \in DOMAIN ag.hof |-> IdxToOrderId[ag.hof[p] + 1]] \o <<>>
    IN
    /\ ag.estado = "poblacion"
    /\ ag.gen = GAGeneraciones
    /\ \E ahora \in 0..MaxClock :
          /\ clock' = ahora
          /\ queue' = overwrite_machine_schedule(
                          queue, 1,
                          PlanificarMaquina(orders, best_sequence_ids, ahora, Maquinas[1],
                                            "genetico"))
    /\ ag' = [estado |-> "fin", secuencia |-> best_sequence_ids,
              variaciones |-> ag.variaciones]
    /\ UNCHANGED <<pedidos, steps, lastOp, gestor, plan, calc, run, peticiones>>

NextGA ==
    \/ GASeleccionar
    \/ GACruzar
    \/ GAMutar
    \/ GAEvaluar
    \/ GAGuardar

SpecGA == InitGA /\ [][NextGA]_vars

----------------------------------------------------------------------------
(* Two concurrent prioritize_pedido requests (specification SpecConc)

   Each request is a coroutine that yields at every awaited store call: the
   read of its queue row (line 429), the machine lookup (line 449), the read
   of the machine's queue (line 468), the read of the schedulable orders
   (line 469) and the bulk update (line 554), which the store applies in one
   transaction.  Everything between two awaits runs without interruption. *)

ConcMaquina == 1

PeticionNueva(pedido_id, reoptimize) ==
    [pc |-> "inicio", pedido_id |-> pedido_id, reoptimize |-> reoptimize,
     item |-> NULL, cola |-> <<>>, ok |-> FALSE, escribio |-> FALSE, viejo |-> FALSE]

PeticionFin(p, ok) == [p EXCEPT !.pc = "fin", !.ok = ok]

InitConc ==
    /\ pedidos = [o \in 1..NumOrders |-> PedidoInicial(o)]
       \* the queue generate_optimal_schedule wrote for the machine
    /\ \E orders \in {get_schedulable_orders_for_machine(ConcMaquina)} :
       \E opt \in SecuenciasOptimizadas(orders) :
          queue = overwrite_machine_schedule(
                      {}, ConcMaquina,
                      PlanificarMaquina(orders, opt, 0, Maquinas[ConcMaquina], "genetico"))
    /\ clock = 0
    /\ steps = 0
    /\ lastOp = Resultado("init", TRUE, NULL, NULL, FALSE, {}, {})
    /\ gestor = Idle
    /\ plan = Idle
    /\ calc = Idle
    /\ run = Idle
    /\ ag = Idle
    /\ \E p1, p2 \in Range(Ids(get_schedulable_orders_for_machine(ConcMaquina))) :
       \E r1, r2 \in BOOLEAN :
          peticiones = [p |-> <<PeticionNueva(p1, r1), PeticionNueva(p2, r2)>>,
                        ultima |-> 0]

ConcPaso(i, p) ==
    /\ peticiones' = [peticiones EXCEPT !.p[i] = p]
    /\ UNCHANGED <<pedidos, queue, clock, steps, lastOp, gestor, plan, calc, run, ag>>

\* lines 429-445: the queue row of the target; absent, or already first
ConcLeerItem(i) ==
    LET p == peticiones.p[i]
        items == {r \in queue : r.order_id = p.pedido_id}
        item == CHOOSE r \in items : TRUE
    IN  /\ p.pc = "inicio"
        /\ IF Cardinality(items) # 1
           THEN ConcPaso(i, PeticionFin(p, FALSE))
           ELSE IF EsPrimero(item)
           THEN ConcPaso(i, PeticionFin([p EXCEPT !.item = item], TRUE))
           ELSE ConcPaso(i, [p EXCEPT !.pc = "maquina", !.item = item])

\* lines 448-465: the machine of the row must exist and be active
ConcLeerMaquina(i) ==
    LET p == peticiones.p[i]
    IN  /\ p.pc = "maquina"
        /\ IF MaquinaActiva(p.item.machine_id)
           THEN ConcPaso(i, [p EXCEPT !.pc = "cola"])
           ELSE ConcPaso(i, PeticionFin(p, FALSE))

\* line 468: the rows of the machine's queue as they are now
ConcLeerCola(i) ==
    LET p == peticiones.p[i]
    IN  /\ p.pc = "cola"
        /\ ConcPaso(i, [p EXCEPT !.pc = "planificables",
                                 !.cola = get_production_queue_for_machine(
                                              queue, p.item.machine_id) \o <<>>])

\* lines 469-483: the schedulable orders of the machine; table pedido does not
\* change while the two requests run, so the write step reads it again
ConcLeerPlanificables(i) ==
    LET p == peticiones.p[i]
    IN  /\ p.pc = "planificables"
        /\ IF p.pedido_id \in Range(Ids(get_schedulable_orders_for_machine(p.item.machine_id)))
           THEN ConcPaso(i, [p EXCEPT !.pc = "escribir"])
           ELSE ConcPaso(i, PeticionFin(p, FALSE))

\* lines 486-580: the gestor runs on the rows read at line 468 and the bulk
\* update is applied to the table as it is at the time of the write
ConcEscribir(i) ==
    LET p == peticiones.p[i]
        maquina_id == p.item.machine_id
    IN  /\ p.pc = "escribir"
        /\ \E out \in GestorOutcomes(Range(p.cola), maquina_id, p.pedido_id, p.reoptimize) :
           \E updates \in {UpdatesForDb(p.cola, out.g.secuencia)} :
              IF out.raised \/ p.pedido_id \notin Range(out.g.secuencia) \/ updates = <<>>
              THEN ConcPaso(i, PeticionFin(p, FALSE))
              ELSE /\ queue' = update_production_queue(queue, updates)
                   /\ peticiones' =
                          [p |-> [peticiones.p EXCEPT
                                     ![i] = [PeticionFin(p, TRUE) EXCEPT
                                                !.escribio = TRUE,
                                                !.viejo = (p.cola #
                                                    get_production_queue_for_machine(
                                                        queue, maquina_id))]],
                           ultima |-> i]
                   /\ UNCHANGED <<pedidos, clock, steps, lastOp, gestor, plan, calc, run, ag>>

NextConc ==
    \/ \E i \in 1..2 : ConcLeerItem(i)
    \/ \E i \in 1..2 : ConcLeerMaquina(i)
    \/ \E i \in 1..2 : ConcLeerCola(i)
    \/ \E i \in 1..2 : ConcLeerPlanificables(i)
    \/ \E i \in 1..2 : ConcEscribir(i)

SpecConc == InitConc /\ [][NextConc]_vars

----------------------------------------------------------------------------
(* One run of OptimizadorTotal._reasignar_ordenes_inteligente, phase by phase
   (specification SpecPlanner) *)

\* machines of the table: 1 declares that it shares rolls with 2 and 3, 2
\* declares itself; functional_inks of 1 varies
PlanMaquinas(fi1) ==
    [m \in {1, 2, 3} |->
        [id |-> m,
         inks |-> IF m = 2 THEN 8 ELSE 6,
         functional_inks |-> IF m = 1 THEN fi1 ELSE IF m = 2 THEN 8 ELSE 6,
         share_rolls |-> IF m = 1 THEN {2, 3} ELSE IF m = 2 THEN {2} ELSE {}]]

\* get_all_active_machines: the machines handed to the planner; machine 3 is
\* active or not
PlanActivas == {{1, 2, 3}, {1, 2}}

\* orders_by_machine: n1 orders on machine 1, those at the positions pesadas
\* with ncol colours and the others with 2; n2 orders on machine 2; 1 on machine 3
PlanOrdenes(n1, pesadas, ncol, n2) ==
    LET orden(i, m, c) == [id |-> i, maquina |-> m, colores |-> 1..c]
        val == [m \in {1, 2, 3} |->
                   IF m = 1
                   THEN [i \in 1..n1 |-> orden(i, 1, IF i \in pesadas THEN ncol ELSE 2)]
                   ELSE IF m = 2 THEN [i \in 1..n2 |-> orden(100 + i, 2, 2)]
                   ELSE <<orden(201, 3, 2)>>]
        conOrdenes(m) == val[m] # <<>>
    IN  [keys |-> SelectSeq(<<1, 2, 3>>, conOrdenes),
         val |-> [m \in {x \in {1, 2, 3} : val[x] # <<>>} |-> val[m]]]

PlanEntradas ==
    {[machines |-> [m \in activas |-> PlanMaquinas(fi1)[m]],
      obm |-> PlanOrdenes(n1, pesadas, ncol, n2)] :
        activas \in PlanActivas, fi1 \in {0, 4}, n1 \in {2, PlanMaxLoad}, pesadas \in SUBSET {1, 2},
        ncol \in {3, 6}, n2 \in {0, PlanMaxLoad - 4, LoadLimit}}

InitPlanner ==
    /\ ag = Idle
    /\ peticiones = Idle
    /\ StoreInicial
    /\ gestor = Idle
    /\ calc = Idle
    /\ run = Idle
    /\ \E e \in PlanEntradas :
          plan = [estado |-> "inicio",
                  machines |-> e.machines,
                  graph |-> build_machine_compatibility_graph(e.machines),
                  obm |-> e.obm,
                  st |-> PlanInicial(e.obm)]

\* lines 472-526
PlanFase1 ==
    /\ plan.estado = "inicio"
    /\ plan' = [plan EXCEPT !.estado = "fase1",
                            !.st = ReasignarFase1(plan.obm, plan.machines, plan.graph)]
    /\ UNCHANGED <<pedidos, queue, clock, steps, lastOp, gestor, calc, run, ag, peticiones>>

\* lines 528-596
PlanFase2 ==
    /\ plan.estado = "fase1"
    /\ plan' = [plan EXCEPT !.estado = "fase2",
                            !.st = ReasignarFase2(plan.st, plan.obm, plan.machines, plan.graph)]
    /\ UNCHANGED <<pedidos, queue, clock, steps, lastOp, gestor, calc, run, ag, peticiones>>

NextPlanner ==
    \/ PlanFase1
    \/ PlanFase2

SpecPlanner == InitPlanner /\ [][NextPlanner]_vars

----------------------------------------------------------------------------
(* One GestorPrioridades instance receiving priority operations
   (specification SpecGestor) *)

InitGestor ==
    /\ ag = Idle
    /\ peticiones = Idle
    /\ StoreInicial
    /\ plan = Idle
    /\ calc = Idle
    /\ run = Idle
    /\ \E ordenes_dict \in {1..GestorOrders, 1..(GestorOrders - 1)} :
          gestor = [estado |-> "activo",
                    g |-> GestorNuevo([i \in 1..GestorOrders |-> i], ordenes_dict),
                    n |-> 0,
                    ultimo |-> [op |-> "init", orden_id |-> NULL, raised |-> FALSE]]

PriorizarSinReprogramar(orden_id) ==
    /\ gestor.estado = "activo"
    /\ gestor.n < MaxGestorOps
    /\ gestor' = [gestor EXCEPT
                     !.g = priorizar_sin_reprogramar(gestor.g, orden_id),
                     !.n = gestor.n + 1,
                     !.ultimo = [op |-> "priorizar_sin_reprogramar",
                                 orden_id |-> orden_id, raised |-> FALSE]]
    /\ UNCHANGED <<pedidos, queue, clock, steps, lastOp, plan, calc, run, ag, peticiones>>

PriorizarConReoptimizacion(orden_id) ==
    /\ gestor.estado = "activo"
    /\ gestor.n < MaxGestorOps
    /\ \E out \in priorizar_con_reoptimizacion(gestor.g, orden_id) :
          gestor' = [gestor EXCEPT
                        !.g = out.g,
                        !.n = gestor.n + 1,
                        !.ultimo = [op |-> "priorizar_con_reoptimizacion",
                                    orden_id |-> orden_id, raised |-> out.raised]]
    /\ UNCHANGED <<pedidos, queue, clock, steps, lastOp, plan, calc, run, ag, peticiones>>

NextGestor ==
    \/ \E orden_id \in 1..(GestorOrders + 1) : PriorizarSinReprogramar(orden_id)
    \/ \E orden_id \in 1..(GestorOrders + 1) : PriorizarConReoptimizacion(orden_id)

SpecGestor == InitGestor /\ [][NextGestor]_vars

----------------------------------------------------------------------------
(* Scenario: machine 1 with the queue [1, 2, 3, 4, 5] of five orders without
   forced date, priorities asked without re-optimization (specification SpecS4) *)

PedidoS4(o) ==
    [PedidoInicial(o) EXCEPT !.maquina = 1, !.fecha_forzosa_entrega = NULL,
                             !.num_colores = 2, !.colores = 1..2]

ColaS4 == <<1, 2, 3, 4, 5>>

InitS4 ==
    /\ ag = Idle
    /\ peticiones = Idle
    /\ pedidos = [o \in Range(ColaS4) |-> PedidoS4(o)]
    /\ queue = overwrite_machine_schedule(
                   {}, 1,
                   PlanificarMaquina([i \in DOMAIN ColaS4 |-> PedidoS4(ColaS4[i])],
                                     ColaS4, 0, Maquinas[1], "genetico"))
    /\ clock = 0
    /\ steps = 0
    /\ lastOp = Resultado("init", TRUE, NULL, NULL, FALSE, {}, {})
    /\ gestor = Idle
    /\ plan = Idle
    /\ calc = Idle
    /\ run = Idle

NextS4 ==
    \/ \E pedido_id \in 1..(Len(ColaS4) + 1) : PrioritizePedido(pedido_id, FALSE, SinFallo)
    \/ \E o \in DOMAIN pedidos : OrderExits(o)

SpecS4 == InitS4 /\ [][NextS4]_vars

----------------------------------------------------------------------------
(* Properties of the service over the store (specification Spec) *)

\* C1: for every machine, the production_order values of its queue rows are
\* exactly 1..K (K = number of rows): no gap and no duplicate, after any
\* sequence of the four use-cases
C1_ProductionOrderDense ==
    \A m \in MachineIds :
        {r.order_production : r \in RowsOf(queue, m)} = 1..Cardinality(RowsOf(queue, m))

\* C2: every record of the date calculator, as persisted in the queue, has
\* total = setup + inter-label + print + buffer
C2_TotalIsSumOfParts ==
    \A r \in queue :
        r.tiempo_total_min = r.tiempo_setup_min + r.tiempo_cambios_internos_min
                                + r.tiempo_impresion_min + r.tiempo_buffer_min

\* C3: no order with a forced-delivery date is in a set of orders handed to
\* the genetic sequencer, in any use-case
C3_ForcedNeverInGA ==
    \A entregadas \in lastOp.ga :
        \A o \in entregadas : pedidos[o].fecha_forzosa_entrega = NULL

\* C4: in every schedule written by generate_optimal_schedule or by
\* generate_optimal_schedule_all_machines, no forced-date order comes after an
\* order without forced date, and the forced-date orders are in ascending
\* order of forced date
C4_ForcedFirstAscending ==
    lastOp.op \in {"generate_optimal_schedule", "generate_optimal_schedule_all_machines"} =>
        \A m \in lastOp.written :
            \A r1, r2 \in RowsOf(queue, m) :
                r1.order_production < r2.order_production =>
                    LET f1 == pedidos[r1.order_id].fecha_forzosa_entrega
                        f2 == pedidos[r2.order_id].fecha_forzosa_entrega
                    IN  /\ f2 # NULL => f1 # NULL
                        /\ (f1 # NULL /\ f2 # NULL) => f1 <= f2

\* generate_optimal_schedule has just written a queue with two forced-date
\* orders and an order without forced date
C4_Witness ==
    /\ lastOp.op = "generate_optimal_schedule"
    /\ \E m \in lastOp.written :
          /\ Cardinality({r \in RowsOf(queue, m) :
                             pedidos[r.order_id].fecha_forzosa_entrega # NULL}) >= 2
          /\ \E r \in RowsOf(queue, m) : pedidos[r.order_id].fecha_forzosa_entrega = NULL

\* C5: right after generate_optimal_schedule or
\* generate_optimal_schedule_all_machines overwrote a machine's schedule, the
\* rows of that machine carry production_order exactly 1..K, K the number of
\* rows written
C5_OverwriteNumbersFromOne ==
    (lastOp.op \in {"generate_optimal_schedule", "generate_optimal_schedule_all_machines"}
        /\ lastOp.ok) =>
        \A m \in lastOp.written :
            LET escritas == RowsOf(queue, m)
            IN  /\ escritas # {}
                /\ \A k \in 1..Cardinality(escritas) :
                      Cardinality({r \in escritas : r.order_production = k}) = 1

\* the all-machines planner has just overwritten two machines, one of them
\* with several rows
C5_Witness ==
    /\ lastOp.op = "generate_optimal_schedule_all_machines"
    /\ Cardinality(lastOp.written) >= 2
    /\ \E m \in lastOp.written : Cardinality(RowsOf(queue, m)) >= 2

\* C10 as stated: in every reachable state, along increasing production_order
\* within one machine's queue the probable delivery date never decreases
\* (pairs across the forced / not forced boundary aside)
C10_MonotoneInEveryState ==
    \A m \in MachineIds :
        \A r1, r2 \in RowsOf(queue, m) :
            (/\ r1.order_production < r2.order_production
             /\ (pedidos[r1.order_id].fecha_forzosa_entrega = NULL)
                    = (pedidos[r2.order_id].fecha_forzosa_entrega = NULL))
                => r1.probable_delivery_date <= r2.probable_delivery_date

\* C10 amended: the dates are monotone along production_order in the queue of
\* a machine whose dates were just computed, by generate_optimal_schedule, by
\* generate_optimal_schedule_all_machines or by recalculate_delivery_dates
C10_MonotoneAfterDatesComputed ==
    \A m \in MachineIds :
        (\/ /\ lastOp.op \in {"generate_optimal_schedule",
                               "generate_optimal_schedule_all_machines"}
            /\ m \in lastOp.written
         \/ /\ lastOp.op = "recalculate_delivery_dates"
            /\ lastOp.ok
            /\ m = lastOp.machine)
            => \A r1, r2 \in RowsOf(queue, m) :
                  (/\ r1.order_production < r2.order_production
                   /\ (pedidos[r1.order_id].fecha_forzosa_entrega = NULL)
                          = (pedidos[r2.order_id].fecha_forzosa_entrega = NULL))
                      => r1.probable_delivery_date <= r2.probable_delivery_date

\* recalculate_delivery_dates has just run on a queue that a prioritize_pedido
\* had renumbered: an order without forced date is first, ahead of a forced one
C10_Witness ==
    /\ lastOp.op = "recalculate_delivery_dates"
    /\ lastOp.ok
    /\ \E r1, r2 \in RowsOf(queue, lastOp.machine) :
          /\ r1.order_production = 1
          /\ pedidos[r1.order_id].fecha_forzosa_entrega = NULL
          /\ r2.order_production > 1
          /\ pedidos[r2.order_id].fecha_forzosa_entrega # NULL

----------------------------------------------------------------------------
(* Properties of the multi-machine planner (specification SpecPlanner) *)

\* C8: after phase 1, every order either has no more colours than the
\* functional_inks of the machine it is assigned to, or no neighbour n of its
\* machine m had functional_inks(n) > functional_inks(m), functional_inks(n) >=
\* its colours and a load below 50 when the order was examined
C8_Phase1CapacityRelief ==
    plan.estado = "fase1" =>
        \A m \in DOMAIN plan.obm.val \cap DOMAIN plan.machines :
          \A k \in DOMAIN plan.obm.val[m] :
            LET orden == plan.obm.val[m][k]
                c == Cardinality(orden.colores)
                fi(x) == plan.machines[x].functional_inks
                movs == {r \in Range(plan.st.reasignaciones) : r.orden_id = orden.id}
                asignada == IF movs = {} THEN m ELSE (CHOOSE r \in movs : TRUE).destino
                vista == {e \in Range(plan.st.vistas) : e.orden_id = orden.id}
                loads == IF vista = {} THEN plan.st.loads
                         ELSE (CHOOSE e \in vista : TRUE).loads
            IN  \/ c <= fi(asignada)
                \/ ~ \E n \in GraphGet(plan.graph, m) \cap DOMAIN plan.machines :
                        /\ fi(n) > fi(m)
                        /\ fi(n) >= c
                        /\ LoadGet(loads, n) < LoadLimit

\* C9: the reassignments of phase 1 followed by phase 2 name each order at
\* most once
C9_NoOrderMovedTwice ==
    plan.estado \in {"fase1", "fase2"} =>
        \A i, j \in DOMAIN plan.st.reasignaciones :
            i # j => plan.st.reasignaciones[i].orden_id # plan.st.reasignaciones[j].orden_id

\* both phases are over, phase 1 moved an order away from machine 1 and
\* phase 2 moved another order of machine 1
C9_Witness ==
    /\ plan.estado = "fase2"
    /\ \E r1, r2 \in Range(plan.st.reasignaciones) :
          /\ r1.razon = "Requiere"
          /\ r2.razon = "Balanceo"
          /\ {r1.orden_id, r2.orden_id} \subseteq Range(Ids(plan.obm.val[1]))

----------------------------------------------------------------------------
(* Properties of the priority operations (specifications SpecS4, SpecGestor) *)

\* C6: a prioritize_pedido(x, reoptimize = false) that succeeds on an x that
\* was not first (so that priorizar_sin_reprogramar ran) leaves x first in the
\* machine's queue and the other schedulable orders in the relative order
\* they had, numbered by their position; on the queue [1, 2, 3, 4, 5] with
\* x = 4 the queue becomes [4, 1, 2, 3, 5] with production_order 1..5
C6_MoveToFrontKeepsOrder ==
    [][(/\ steps' = steps + 1
        /\ lastOp'.op = "prioritize_pedido"
        /\ lastOp'.ok
        /\ ~lastOp'.reoptimize
        /\ \E r \in queue : r.order_id = lastOp'.target /\ r.order_production # 1)
       => LET x == lastOp'.target
              m == lastOp'.machine
              otra(o) == o # x
          IN  \A validas \in {Range(Ids(get_schedulable_orders_for_machine(m)))} :
              \A filasAntes \in {RowsOrdered({r \in RowsOf(queue, m) :
                                                  r.order_id \in validas})} :
              \A filasDespues \in {RowsOrdered({r \in RowsOf(queue', m) :
                                                    r.order_id \in validas})} :
              \A antes \in {[i \in DOMAIN filasAntes |-> filasAntes[i].order_id]} :
              \A despues \in {[i \in DOMAIN filasDespues |-> filasDespues[i].order_id]} :
                  /\ despues[1] = x
                  /\ SelectSeq(despues, otra) = SelectSeq(antes, otra)
                  /\ \A i \in DOMAIN despues : filasDespues[i].order_production = i
                  /\ (antes = <<1, 2, 3, 4, 5>> /\ x = 4) => despues = <<4, 1, 2, 3, 5>>
      ]_vars

\* the queue [1, 2, 3, 4, 5] after prioritize_pedido(4, reoptimize = false):
\* order 4 carries production_order 1, order 1 carries 2 and order 5 stays fifth
C6_Witness ==
    /\ steps = 1
    /\ lastOp.op = "prioritize_pedido"
    /\ lastOp.ok
    /\ lastOp.target = 4
    /\ ~lastOp.reoptimize
    /\ \E r4, r1, r5 \in RowsOf(queue, 1) :
          /\ r4.order_id = 4 /\ r4.order_production = 1
          /\ r1.order_id = 1 /\ r1.order_production = 2
          /\ r5.order_id = 5 /\ r5.order_production = 5

\* C7: every priorizar_con_reoptimizacion on one gestor leaves the orders
\* locked before the call (the target aside) in the relative order they had,
\* and when the call returns they come first, then the target, then the
\* re-optimized free orders
C7_LockedKeepRelativeOrder ==
    [][(/\ gestor'.n = gestor.n + 1
        /\ gestor'.ultimo.op = "priorizar_con_reoptimizacion")
       => LET x == gestor'.ultimo.orden_id
              antes == gestor.g.secuencia
              despues == gestor'.g.secuencia
              bloqueada(o) == o \in DOMAIN gestor.g.bloqueos /\ o # x
              bloqueadas == SelectSeq(antes, bloqueada)
          IN  /\ SelectSeq(despues, bloqueada) = bloqueadas
              /\ (x \in Range(antes) /\ ~gestor'.ultimo.raised) =>
                    /\ SubSeq(despues, 1, Len(bloqueadas)) = bloqueadas
                    /\ despues[Len(bloqueadas) + 1] = x
                    /\ \A i \in (Len(bloqueadas) + 2)..Len(despues) :
                          ~bloqueada(despues[i]) /\ despues[i] # x
      ]_vars

\* a priorizar_con_reoptimizacion has returned on a gestor that held two
\* locks, taken in an order that is not the initial one, with a free order
\* after the target
C7_Witness ==
    /\ gestor.estado = "activo"
    /\ gestor.ultimo.op = "priorizar_con_reoptimizacion"
    /\ ~gestor.ultimo.raised
    /\ Len(gestor.g.secuencia) >= 4
    /\ gestor.g.secuencia[3] = gestor.ultimo.orden_id
    /\ {gestor.g.secuencia[1], gestor.g.secuencia[2]} \subseteq DOMAIN gestor.g.bloqueos
    /\ gestor.g.secuencia[1] > gestor.g.secuencia[2]
    /\ gestor.g.secuencia[4] \notin DOMAIN gestor.g.bloqueos

----------------------------------------------------------------------------
(* Properties of the service over a store whose calls can fail
   (specification SpecStore) *)

UseCases ==
    {"generate_optimal_schedule", "generate_optimal_schedule_all_machines",
     "prioritize_pedido", "recalculate_delivery_dates"}

\* C11: no exception leaves a use-case: whatever raises inside one of the four
\* use-cases, a store read included, the request ends in a returned response
C11_NoExceptionEscapes ==
    lastOp.op \in UseCases => ~lastOp.escapa

\* C12: a request during which a store write failed for some machine, by
\* returning False or by raising, answers success = false; this includes
\* generate_optimal_schedule_all_machines when only some overwrites fail
C12_WriteFailureIsFailure ==
    (lastOp.op \in UseCases /\ lastOp.fallidas # {}) => (~lastOp.ok /\ ~lastOp.escapa)

\* C13: a request in an invalid state is refused and writes nothing:
\* generate_optimal_schedule on a machine that exists but is not active,
\* prioritize_pedido on an order without queue row, and
\* generate_optimal_schedule_all_machines with reoptimize = false each answer
\* success = false and leave the queue table as it was
C13_InvalidStateRefused ==
    [][LET r == lastOp'
       IN  (/\ steps' = steps + 1
            /\ pedidos' = pedidos
            /\ \/ /\ r.op = "generate_optimal_schedule"
                  /\ r.machine \in MachineIds
                  /\ Maquinas[r.machine].estatus # "activa"
               \/ /\ r.op = "prioritize_pedido"
                  /\ \A row \in queue : row.order_id # r.target
               \/ /\ r.op = "generate_optimal_schedule_all_machines"
                  /\ ~r.reoptimize)
           => (~r.ok /\ ~r.escapa /\ r.written = {} /\ queue' = queue)]_vars

\* a prioritize request for an order without queue row was refused while the
\* table held rows
C13_Witness ==
    /\ lastOp.op = "prioritize_pedido"
    /\ \A row \in queue : row.order_id # lastOp.target
    /\ ~lastOp.ok
    /\ queue # {}

\* C14: a single order never reaches the genetic sequencer: in every request
\* that sequences orders, each set of orders handed to
\* AlgoritmoGeneticoFlexo.optimizar holds more than one order
C14_SingleOrderBypassesGA ==
    lastOp.op \in UseCases => \A ordenes \in lastOp.ga : Cardinality(ordenes) # 1

----------------------------------------------------------------------------
(* Properties of the date calculator and the print-time estimates
   (specification SpecCalc) *)

\* C15: with a machine velocity of 0 or an order of 0 print meters, the print
\* time of the date calculator (tiempo_impresion_min) and the print-time
\* estimate of the fitness are both 0
C15_ZeroVelocityOrMetersIsZero ==
    (/\ calc.estado = "tiempos"
     /\ calc.machine.avg_velocity = 0 \/ calc.orden.total_metros_impresion = 0)
        => (calc.tiempos.tiempo_impresion_min = 0 /\ calc.estimado = 0)

\* C16: whenever the calendar operation returns, for a start t and a duration
\* d >= 0, its result is at least t + d: the clock never goes backwards and
\* the elapsed time is never less than the working time consumed
C16_CalendarNeverShortens ==
    (calc.estado = "ajustado" /\ calc.resultado \notin {Raises, Diverges})
        => calc.resultado >= calc.fecha_inicio + calc.minutos * TicksPerMin

\* the calendar returned later than start + duration: it skipped closed hours
C16_Witness ==
    /\ calc.estado = "ajustado"
    /\ calc.resultado \notin {Raises, Diverges}
    /\ calc.minutos > 0
    /\ calc.resultado > calc.fecha_inicio + calc.minutos * TicksPerMin

\* C17: a start after the end of the day's working window, or on a day that
\* is not worked, consumes nothing on that day: the duration is consumed from
\* the first hour of the next working day.  Saturday 20:00 plus 60 minutes on
\* the window 07:00-19:00 with Sunday closed gives Monday 08:00
C17_LateStartConsumesNextWorkingDay ==
    LET cfg == calc.cfg
        t == calc.fecha_inicio
        d == calc.minutos * TicksPerMin
        minutos == minutos_laborables_por_dia(cfg)
        hoy == minutos[Weekday(t)]
        fin_hoy == ReplaceHour(t, cfg.hora_inicio_turno1) + hoy * TicksPerMin
        \* days until the next working day
        k == CHOOSE n \in 1..7 :
                 /\ minutos[(Weekday(t) + n) % 7] > 0
                 /\ \A j \in 1..(n - 1) : minutos[(Weekday(t) + j) % 7] = 0
        inicio == ReplaceHour(t + k * TicksPerDay, cfg.hora_inicio_turno1)
    IN  /\ (/\ calc.estado = "ajustado"
            /\ calc.resultado \notin {Raises, Diverges}
            /\ d > 0
            /\ \E dia \in 0..6 : minutos[dia] # MinutesPerDay
            /\ hoy = 0 \/ t >= fin_hoy)
               => /\ calc.resultado >= inicio + d
                  /\ d <= minutos[Weekday(inicio)] * TicksPerMin
                        => calc.resultado = inicio + d
        /\ (/\ calc.estado = "ajustado"
            /\ calc.cfg = Ventana7a19
            /\ calc.fecha_inicio = (5 * 24 + 20) * 60 * TicksPerMin
            /\ calc.minutos = 60)
               => calc.resultado = (7 * 24 + 8) * 60 * TicksPerMin

\* the calendar was asked for Saturday 20:00 plus 60 minutes on that window
C17_Witness ==
    /\ calc.estado = "ajustado"
    /\ calc.cfg = Ventana7a19
    /\ calc.fecha_inicio = (5 * 24 + 20) * 60 * TicksPerMin
    /\ calc.minutos = 60

----------------------------------------------------------------------------
(* Frame of the use-cases *)

\* C18: recalculate_delivery_dates changes nothing but the probable delivery
\* date and the five duration fields of existing rows: whether it succeeds or
\* fails, the table keeps the same rows with the same order_id, machine_id and
\* production_order, and the rows of the other machines are untouched
C18_RecalculateKeepsPositions ==
    [][LET marco(r) == [id |-> r.id, order_id |-> r.order_id, machine_id |-> r.machine_id,
                        order_production |-> r.order_production, reason |-> r.reason]
       IN  (/\ steps' = steps + 1
            /\ pedidos' = pedidos
            /\ lastOp'.op = "recalculate_delivery_dates")
              => /\ {marco(r) : r \in queue'} = {marco(r) : r \in queue}
                 /\ Cardinality(queue') = Cardinality(queue)
                 /\ \A r \in queue : r.machine_id # lastOp'.machine => r \in queue']_vars

\* a recalculation succeeded on a machine with rows, at a later clock reading
\* than the one the rows were scheduled at
C18_Witness ==
    /\ lastOp.op = "recalculate_delivery_dates"
    /\ lastOp.ok
    /\ clock > 0
    /\ \E r \in RowsOf(queue, lastOp.machine) :
          /\ r.order_production = 1
          /\ r.probable_delivery_date = Now(clock) + r.tiempo_total_min
    /\ Cardinality(RowsOf(queue, lastOp.machine)) >= 2

\* C19: prioritize_pedido on an order whose queue row (the only row of that
\* order) already has production_order 1 answers success and writes nothing:
\* every queue row stays as it was, with reoptimize true or false
C19_AlreadyFirstIsNoOp ==
    [][LET r == lastOp'
       IN  (/\ steps' = steps + 1
            /\ pedidos' = pedidos
            /\ r.op = "prioritize_pedido"
            /\ Cardinality({row \in queue : row.order_id = r.target}) = 1
            /\ \E row \in queue : row.order_id = r.target /\ row.order_production = 1)
              => (r.ok /\ r.ga = {} /\ queue' = queue)]_vars

\* a prioritize request with re-optimization for the first order of a queue
\* of several rows succeeded without a sequencer run
C19_Witness ==
    /\ lastOp.op = "prioritize_pedido"
    /\ lastOp.ok
    /\ lastOp.reoptimize
    /\ lastOp.ga = {}
    /\ \E row \in queue :
          /\ row.order_id = lastOp.target
          /\ row.order_production = 1
          /\ row.machine_id = lastOp.machine
          /\ Cardinality(RowsOf(queue, row.machine_id)) >= 3

----------------------------------------------------------------------------
(* Order of the writes within generate_optimal_schedule_all_machines
   (specification SpecRun) *)

\* C20: in generate_optimal_schedule_all_machines no overwrite is attempted
\* before the sequence and the dates of every machine are computed, so a
\* request that fails or is cancelled while machines are still being planned
\* has written nothing: the table is as it was when the request came
C20_WritesAfterPlanning ==
    /\ (run.estado = "planificando" /\ (run.intentos > 0 \/ queue # run.queue0))
          => run.k > Len(run.keys)
    /\ (run.estado = "fin" /\ run.cortada \in {"cargando", "planificando"})
          => (run.intentos = 0 /\ queue = run.queue0)

\* a request was cut short after planning a machine and before planning the
\* next, over a table that held rows
C20_Witness ==
    /\ run.estado = "fin"
    /\ run.cortada = "planificando"
    /\ run.planificadas # {}
    /\ queue # {}

----------------------------------------------------------------------------
(* C21: for every pair of consecutive orders of a sequence, the setup time the
   date calculator assigns to the second equals the transition cost the
   sequencer's cost model gives the pair on the same machine. *)
C21_SetupIsCostModelTransition ==
    calc.estado = "cambiado" => calc.tiempo_setup = calc.costo_cambio

(* C22: the completion timestamp of the order at position i is the calendar
   operation applied to the completion timestamp of position i-1 (the start
   timestamp for the first order) with the full duration of the order: setup
   plus inter-label changeover plus real print time plus buffer. *)
C22_TimestampAdvancesByFullDuration ==
    calc.estado = "fechado" =>
        \A i \in DOMAIN calc.fechas :
            LET r == calc.fechas[i]
                anterior == IF i = 1 THEN calc.fecha_inicio
                            ELSE calc.fechas[i - 1].probable_fecha_entrega
            IN  r.probable_fecha_entrega =
                    ajustar_horario_laboral(
                        calc.cfg, anterior,
                        r.tiempo_setup_min + r.tiempo_cambios_internos_min
                            + r.tiempo_impresion_min + r.tiempo_buffer_min)

(* C23: on a calendar that is not 24/7, a positive duration that starts
   before the first hour of the day is consumed from the first hour on: the
   timestamp returned lies inside the working window of a working day, between
   the day's first hour and that hour plus the day's working minutes. *)
C23_EarlyStartAdvancesToDayStart ==
    LET cfg == calc.cfg
        laborables == minutos_laborables_por_dia(cfg)
        inicio_dia(t) == ReplaceHour(t - (t % TicksPerMin), cfg.hora_inicio_turno1)
    IN  ( /\ calc.estado = "ajustado"
          /\ \E d \in 0..6 : laborables[d] # MinutesPerDay
          /\ calc.minutos > 0
          /\ calc.fecha_inicio < inicio_dia(calc.fecha_inicio)
          /\ calc.resultado >= 0 )
        => /\ laborables[Weekday(calc.resultado)] > 0
           /\ calc.resultado >= inicio_dia(calc.resultado)
           /\ calc.resultado <= inicio_dia(calc.resultado)
                                   + laborables[Weekday(calc.resultado)] * TicksPerMin

(* C24: the compatibility graph built from the share_rolls of the active
   machines is undirected and has no self-loop: whenever b is a neighbour of
   a, a is a neighbour of b, also when b is declared by a and is not itself
   an active machine. *)
C24_GraphUndirectedNoSelfLoops ==
    plan # Idle =>
        \A a \in DOMAIN plan.graph :
            /\ a \notin plan.graph[a]
            /\ \A b \in plan.graph[a] : a \in GraphGet(plan.graph, b)

(* C25: every move of phase 2 sends the order to a compatible neighbour
   that, when the move is decided, has the lowest load among the neighbours
   whose load is at least 5 below the current load of the source machine and
   whose functional_inks is at least the number of colours of the order; in
   particular no move of phase 2 puts an order on a machine with fewer
   functional inks than the order has colours. *)
C25_Phase2TargetIsBestEligible ==
    plan.estado = "fase2" =>
        \A i \in DOMAIN plan.st.balanceos :
            LET mov == plan.st.balanceos[i]
                elegibles ==
                    {n \in GraphGet(plan.graph, mov.origen) \cap DOMAIN plan.machines :
                        /\ mov.carga_actual - LoadGet(mov.loads, n) >= BalanceGap
                        /\ plan.machines[n].functional_inks >= mov.num_colores}
            IN  /\ mov.destino \in elegibles
                /\ \A n \in elegibles :
                       LoadGet(mov.loads, mov.destino) <= LoadGet(mov.loads, n)

(* C26: in phase 2 a machine whose load is L when it is visited moves out no
   order if L <= 20 and otherwise at most min(floor(0.3 * L), L - 15) orders,
   the loads being updated after every move; no machine that phase 2 took
   orders from ends with fewer than 15. *)
C26_Phase2MoveLimit ==
    plan.estado = "fase2" =>
        \A m \in {plan.st.balanceos[i].origen : i \in DOMAIN plan.st.balanceos} :
            LET salidas == {i \in DOMAIN plan.st.balanceos : plan.st.balanceos[i].origen = m}
                primera == CHOOSE i \in salidas : \A j \in salidas : i <= j
                L == plan.st.balanceos[primera].carga_actual
            IN  /\ L > 20
                /\ L = LoadGet(plan.st.balanceos[primera].loads, m)
                /\ Cardinality(salidas) <= (3 * L) \div 10
                /\ Cardinality(salidas) <= L - 15
                /\ \A i \in salidas :
                       LET mov == plan.st.balanceos[i]
                           antes == Cardinality({j \in salidas : j < i})
                       IN  /\ mov.carga_actual = L - antes
                           /\ LoadGet(mov.loads, m) = L - antes
                /\ LoadGet(plan.st.loads, m) >= 15

\* phase 2 visited machine 2 with 50 orders and moved out exactly the 15
\* orders the limit allows, although its neighbour stayed more than 5 below
C26_Witness ==
    /\ plan.estado = "fase2"
    /\ LET salidas == {i \in DOMAIN plan.st.balanceos : plan.st.balanceos[i].origen = 2}
       IN  /\ Cardinality(salidas) = 15
           /\ \E i \in salidas : plan.st.balanceos[i].carga_actual = LoadLimit
           /\ \E n \in GraphGet(plan.graph, 2) :
                  LoadGet(plan.st.loads, 2) - LoadGet(plan.st.loads, n) >= BalanceGap + 2

----------------------------------------------------------------------------
(* Properties of the genetic run inside a request (specification SpecGA) *)

(* C27: every individual of the sequencer, the best one included, is a
   permutation of the indices 0..N-1 of the orders it was given, the sequence
   it returns is a permutation of their ids, and generate_optimal_schedule
   persists exactly one queue row for each schedulable order fetched for the
   machine: no order is lost and none is duplicated. *)
C27_ScheduleIsPermutationOfOrders ==
    LET n == Len(IdxToOrderId)
        permutacion(ind) == Len(ind) = n /\ Range(ind) = 0..(n - 1)
        orders == get_schedulable_orders_for_machine(1)
    IN  /\ ag.estado \in {"poblacion", "variacion"} =>
              /\ permutacion(ag.hof)
              /\ \A i \in DOMAIN ag.pop : permutacion(ag.pop[i])
        /\ ag.estado = "fin" =>
              /\ Len(ag.secuencia) = n
              /\ Range(ag.secuencia) = Range(IdxToOrderId)
              /\ Cardinality(RowsOf(queue, 1)) = Len(orders)
              /\ \A k \in DOMAIN orders :
                     Cardinality({r \in RowsOf(queue, 1) : r.order_id = orders[k].id}) = 1

\* the request wrote the schedule of machine 1 after a run in which
\* individuals were mated and mutated, three orders were sequenced and the
\* sequence returned is not the order in which they were fetched
C27_Witness ==
    /\ ag.estado = "fin"
    /\ ag.variaciones = {"mate", "mutate"}
    /\ Len(ag.secuencia) = 3
    /\ ag.secuencia # IdxToOrderId
    /\ RowsOf(queue, 1) # {}

(* C28: from a store in which every order has a queue row on at most one
   machine, once generate_optimal_schedule_all_machines(reoptimize=true) has
   answered success with every overwrite accepted by the store, every order
   has queue rows on at most one machine, also when the re-assignment took
   every order away from some machine. *)
C28_OrderOnAtMostOneMachine ==
    LET maquinas(q, o) == {r.machine_id : r \in {x \in q : x.order_id = o}}
    IN  ( /\ run # Idle
          /\ run.estado = "fin"
          /\ run.ok
          /\ run.cortada = "no"
          /\ run.machines_updated = run.intentos
          /\ \A o \in DOMAIN pedidos : Cardinality(maquinas(run.queue0, o)) <= 1 )
        => \A o \in DOMAIN pedidos : Cardinality(maquinas(queue, o)) <= 1

----------------------------------------------------------------------------
(* Termination of the calendar loop (specification SpecCalc) *)

(* C30: for every calendar configuration with at least one working weekday,
   every start and every positive duration, _ajustar_horario_laboral ends
   and returns a timestamp: it neither raises nor loops forever, also when
   day-start hour plus the day's working hours reaches 24 on some days. *)
C30_CalendarLoopReturnsTimestamp ==
    (/\ calc # Idle
     /\ calc.estado = "ajustado"
     /\ calc.cfg.dias_laborales # {}
     /\ calc.minutos > 0)
    => calc.resultado \notin {Raises, Diverges}

----------------------------------------------------------------------------
(* Properties of two concurrent priority requests (specification SpecConc) *)

(* C29: when two prioritize_pedido requests for the same machine have both
   ended, whatever the interleaving of their store reads and atomic bulk
   writes, the production_order values of the machine's rows are exactly
   1..K, and if a write was applied, rank 1 is held by the target of the
   request whose write was applied last. *)
C29_LastWriterWins ==
    (/\ peticiones # Idle
     /\ \A i \in 1..2 : peticiones.p[i].pc = "fin")
    => LET rows == RowsOf(queue, ConcMaquina)
           K == Cardinality(rows)
       IN  /\ \A n \in 1..K :
                 Cardinality({r \in rows : r.order_production = n}) = 1
           /\ \A r \in rows : r.order_production \in 1..K
           /\ peticiones.ultima # 0
              => \E r \in rows :
                    /\ r.order_id = peticiones.p[peticiones.ultima].pedido_id
                    /\ r.order_production = 1

\* both requests wrote, with different targets, and the last writer had read
\* the queue before the other's write changed it
C29_Witness ==
    /\ peticiones # Idle
    /\ \A i \in 1..2 : peticiones.p[i].pc = "fin" /\ peticiones.p[i].escribio
    /\ peticiones.p[1].pedido_id # peticiones.p[2].pedido_id
    /\ peticiones.p[peticiones.ultima].viejo

====
